---- MODULE Spec2Model ----
(***************************************************************************)
(* A model of the denali client core: the id manager                      *)
(* (denali-core/src/id_manager.rs), object creation through proxies       *)
(* (denali-core/src/proxy.rs), the display connection                     *)
(* (denali-wayland/denali-client/src/display_connection.rs) and event     *)
(* decoding over coproducts (denali-core/src/handler.rs).                 *)
(***************************************************************************)
EXTENDS Integers, Sequences, FiniteSets, TLC

(***************************************************************************)
(* Bounds of the model.                                                    *)
(***************************************************************************)
\* How many ids may be outstanding at once inside the observed window.
MaxIds == 3
\* How many client ids are still unallocated in the near-exhaustion start.
NearMax == 2
\* Application tasks that issue requests.
NumTasks == 2
\* Requests the application issues on one connection.
MaxRequests == 3
\* Members of an event coproduct.
MaxMembers == 3
\* Longest free list a misused manager is driven to.
MaxFree == 2
MaxFields == 3

(***************************************************************************)
(* Program constants.  A u32 is written as its 32-bit pattern read as a    *)
(* two's-complement integer: 0 .. 2^31-1 stand for themselves and          *)
(* 2^31 .. 2^32-1 are written x - 2^32, so 0xfeff_ffff is -16777217 and    *)
(* 0xffff_ffff is -1.  LtU32 is the unsigned order on these patterns.      *)
(***************************************************************************)
CLIENT_MIN_ID == 1
CLIENT_MAX_ID == -16777217

LtU32(a, b) == IF (a < 0) = (b < 0) THEN a < b ELSE a >= 0
LeU32(a, b) == a = b \/ LtU32(a, b)
GtU32(a, b) == LtU32(b, a)

\* x + 1 and x - 1 on a u32 as a release build computes them (wrapping);
\* a debug build panics where IncOverflows / DecOverflows holds.
IncU32(a) == IF a = 2147483647 THEN (-2147483647) - 1 ELSE a + 1
DecU32(a) == IF a = (-2147483647) - 1 THEN 2147483647 ELSE a - 1
IncOverflows(a) == a = -1
DecOverflows(a) == a = 0

MinU32(S) == CHOOSE i \in S : \A j \in S : LeU32(i, j)

(***************************************************************************)
(* BinaryHeap<Reverse<u32>>: a min-heap, kept here as an ascending         *)
(* sequence (a multiset in priority order).                                *)
(***************************************************************************)
HeapPeek(h) == h[1]
HeapPop(h) == Tail(h)
HeapPush(h, x) ==
    LET k == Cardinality({i \in 1..Len(h) : LeU32(h[i], x)})
    IN  SubSeq(h, 1, k) \o <<x>> \o SubSeq(h, k + 1, Len(h))
HeapIds(h) == {h[i] : i \in 1..Len(h)}

(***************************************************************************)
(* IdManagerInner                                                          *)
(***************************************************************************)
IdManagerInner_new == [next |-> CLIENT_MIN_ID, free_list |-> <<>>]

Ok(v) == [tag |-> "Ok", val |-> v]
OutOfClientIds(n) == [tag |-> "OutOfClientIds", val |-> n]
NoResult == [tag |-> "None", val |-> 0]

\* The guard shared by peek_next_id and alloc_id.
Exhausted(m) == GtU32(m.next, CLIENT_MAX_ID) /\ m.free_list = <<>>

\* `if let Some(&Reverse(free_id)) = free_list.peek() && free_id < next`
TakesFree(m) == m.free_list # <<>> /\ LtU32(HeapPeek(m.free_list), m.next)

peek_next_id_next_only(m) ==
    IF Exhausted(m) THEN OutOfClientIds(m.next) ELSE Ok(m.next)

peek_next_id(m) ==
    IF Exhausted(m) THEN OutOfClientIds(m.next)
    ELSE IF TakesFree(m) THEN Ok(HeapPeek(m.free_list))
    ELSE Ok(m.next)

alloc_id_never_reuses(m) ==
    IF Exhausted(m) THEN [res |-> OutOfClientIds(m.next), mgr |-> m]
    ELSE [res |-> Ok(m.next), mgr |-> [m EXCEPT !.next = IncU32(m.next)]]

alloc_id_no_limit(m) ==
    IF TakesFree(m)
    THEN [res |-> Ok(HeapPeek(m.free_list)),
          mgr |-> [m EXCEPT !.free_list = HeapPop(m.free_list)]]
    ELSE [res |-> Ok(m.next), mgr |-> [m EXCEPT !.next = IncU32(m.next)]]

alloc_id_keeps_free(m) ==
    IF Exhausted(m) THEN [res |-> OutOfClientIds(m.next), mgr |-> m]
    ELSE IF TakesFree(m) THEN [res |-> Ok(HeapPeek(m.free_list)), mgr |-> m]
    ELSE [res |-> Ok(m.next), mgr |-> [m EXCEPT !.next = IncU32(m.next)]]

alloc_id(m) ==
    IF Exhausted(m) THEN [res |-> OutOfClientIds(m.next), mgr |-> m]
    ELSE IF TakesFree(m)
    THEN [res |-> Ok(HeapPeek(m.free_list)),
          mgr |-> [m EXCEPT !.free_list = HeapPop(m.free_list)]]
    ELSE [res |-> Ok(m.next), mgr |-> [m EXCEPT !.next = IncU32(m.next)]]

\* The `while let` loop of recycle_id: pop the heap while its minimum is next-1.
RECURSIVE SweepTail(_)
SweepTail(m) ==
    IF m.free_list # <<>> /\ IncU32(HeapPeek(m.free_list)) = m.next
    THEN SweepTail([next |-> DecU32(m.next), free_list |-> HeapPop(m.free_list)])
    ELSE m

recycle_id(m, id) ==
    IF id = DecU32(m.next)
    THEN SweepTail([m EXCEPT !.next = DecU32(m.next)])
    ELSE [m EXCEPT !.free_list = HeapPush(m.free_list, id)]

(***************************************************************************)
(* The id manager driven by a client: alloc_id, peek_next_id, recycle_id.  *)
(*   mgr       the IdManagerInner behind the mutex                         *)
(*   low       ids 1..low were allocated before the observed window        *)
(*   gone      ids of 1..low that were recycled and not handed out again   *)
(*   out       ids above low that are outstanding                          *)
(*   last      the most recent call: what it was given, returned and found *)
(*   panicked  a call panicked on arithmetic overflow (debug build)        *)
(***************************************************************************)
VARIABLES mgr, low, gone, out, last, panicked

idVars == <<mgr, low, gone, out, last, panicked>>

(***************************************************************************)
(* One DisplayConnection, its proxies, store, writer task and server.      *)
(*   display        id of the WlDisplay proxy (0 before construction)      *)
(*   id_manager     the shared IdManager                                   *)
(*   interface_map  the shared InterfaceMap: object id -> interface name   *)
(*   objects        InterfaceStore.objects: id -> (interface, version)     *)
(*   held           proxies the application holds outside the store        *)
(*   channel        RequestMessages queued on the unbounded write channel  *)
(*   written        RequestMessages the writer task has sent, in order     *)
(*   incoming       events the server has sent and the client has not read *)
(*   acked          ids whose delete_id event the client has processed     *)
(*   running        the task now executing synchronous code (0: none)      *)
(*   tpc, treq      per task: its position and the request it is building  *)
(***************************************************************************)
VARIABLES display, id_manager, interface_map, objects, held, channel, written,
          incoming, acked, running, tpc, treq

connVars == <<display, id_manager, interface_map, objects, held, channel, written,
              incoming, acked, running, tpc, treq>>

(***************************************************************************)
(* Event decoding over a coproduct of event types.                         *)
(*   coprod   the members of the Coprod!(...) type, left to right          *)
(*   dec      the last try_decode call: its arguments and its result       *)
(***************************************************************************)
VARIABLES coprod, dec

decVars == <<coprod, dec>>

(***************************************************************************)
(* The wire codec.                                                         *)
(*   wire   a MessageEncoder session: the values to write, the buffer, the *)
(*          cursor, what was written where and what was read back          *)
(*   enc    the last encode_message call: its arguments and its outcome    *)
(***************************************************************************)
VARIABLES wire, enc

wireVars == <<wire, enc>>

(***************************************************************************)
(* The read side of the connection and the writer task's join handle.      *)
(*   worker  the writer task: running, failed (returned Err), joined       *)
(*   nev     the handle_event / next_event call in progress                *)
(*   taken   the object RawHandler::handle took out of the store           *)
(*   rlog    the completed handle_event calls, oldest first                *)
(*   sent    how many events the server has sent                           *)
(***************************************************************************)
VARIABLES worker, nev, taken, rlog, sent

recvVars == <<worker, nev, taken, rlog, sent>>

(***************************************************************************)
(* An InterfaceStore driven on its own.                                    *)
(*   store  InterfaceStore.objects, a BTreeMap: its entries in key order   *)
(*   sres   the last store call: its arguments, its result, map before   *)
(***************************************************************************)
VARIABLES store, sres

storeVars == <<store, sres>>

(***************************************************************************)
(* Conversions of the 24.8 fixed point type.                               *)
(*   fx   one conversion: the number given, the Fixed made of it, the type *)
(*        converted to and the result                                      *)
(***************************************************************************)
VARIABLES fx

fixedVars == <<fx>>

(***************************************************************************)
(* Connection::new's choice of the socket path.                            *)
(*   cn   the environment it ran in, how far it got, the path it chose     *)
(*        and the error it returned                                        *)
(***************************************************************************)
VARIABLES cn

pathVars == <<cn>>

(***************************************************************************)
(* The writer task spawned by Connection::new.                             *)
(*   wt   the request channel and its senders, the cancellation token,     *)
(*        the task's position and result, what the socket was given, and   *)
(*        how many requests had been enqueued when Connection was dropped  *)
(***************************************************************************)
VARIABLES wt

writerVars == <<wt>>

(***************************************************************************)
(* Decode::decode applied to bytes as they come from the peer.             *)
(*   input the byte slice, the type decoded from it and the result; for  *)
(*         an event type, the interface name and opcode given as well    *)
(***************************************************************************)
VARIABLES input

inputVars == <<input>>

(***************************************************************************)
(* DisplayConnection::next_event reading one message from the socket.      *)
(*   rd   the bytes the server has yet to send and those in the socket,    *)
(*        whether the peer has closed, the writer task's handle, and the   *)
(*        call: its position, what each receive returned, its result       *)
(***************************************************************************)
VARIABLES rd

readVars == <<rd>>

(***************************************************************************)
(* The generator's build_message on one message of a protocol.             *)
(*   gen   the message's arguments and what was generated for its SIZE     *)
(***************************************************************************)
VARIABLES gen

genVars == <<gen>>

vars == <<idVars, connVars, decVars, wireVars, recvVars, storeVars, fixedVars, pathVars, writerVars, inputVars, readVars, genVars>>

\* What the actions on each part leave alone.
notIdVars == <<connVars, decVars, wireVars, recvVars, storeVars, fixedVars, pathVars, writerVars, inputVars, readVars, genVars>>
notConnVars == <<idVars, decVars, wireVars, recvVars, storeVars, fixedVars, pathVars, writerVars, inputVars, readVars, genVars>>
notDecVars == <<idVars, connVars, wireVars, recvVars, storeVars, fixedVars, pathVars, writerVars, inputVars, readVars, genVars>>
notWireVars == <<idVars, connVars, decVars, recvVars, storeVars, fixedVars, pathVars, writerVars, inputVars, readVars, genVars>>

IsOutstanding(id) == (LeU32(1, id) /\ LeU32(id, low) /\ id \notin gone) \/ id \in out

\* The smallest id >= CLIENT_MIN_ID that is not outstanding.
SmallestFree ==
    LET cand == (gone \cup ((low + 1)..(low + MaxIds + 1))) \ out
    IN  MinU32(cand)

\* afterFail: 0 no failed alloc pending; 1 the last alloc failed; 2 an alloc
\* failed and only recycles (at least one) and peeks followed.
Call(op, arg, res) ==
    [op |-> op, arg |-> arg, res |-> res, pre |-> mgr,
     dup |-> res.tag = "Ok" /\ op = "alloc" /\ IsOutstanding(res.val),
     smallest |-> SmallestFree,
     prev |-> [op |-> last.op, res |-> last.res],
     failBefore |-> last.afterFail,
     afterFail |-> IF op = "alloc" THEN (IF res.tag = "Ok" THEN 0 ELSE 1)
                   ELSE IF op = "recycle" /\ last.afterFail > 0 THEN 2
                   ELSE last.afterFail]

NoCall ==
    [op |-> "new", arg |-> 0, res |-> NoResult, pre |-> IdManagerInner_new,
     dup |-> FALSE, smallest |-> 0, prev |-> [op |-> "new", res |-> NoResult],
     failBefore |-> 0, afterFail |-> 0]

\* A fresh manager (IdManager::new), or the manager after CLIENT_MAX_ID - NearMax
\* allocations with nothing recycled (the state those calls leave).
InitId ==
    /\ low \in {0, CLIENT_MAX_ID - NearMax}
    /\ mgr = [IdManagerInner_new EXCEPT !.next = low + 1]
    /\ gone = {}
    /\ out = {}
    /\ last = NoCall
    /\ panicked = FALSE

\* The caller's bookkeeping of which ids it holds.
Took(id) ==
    IF LeU32(id, low) /\ LeU32(1, id)
    THEN gone' = gone \ {id} /\ out' = out
    ELSE out' = out \cup {id} /\ gone' = gone

Gave(id) ==
    IF LeU32(id, low) /\ LeU32(1, id)
    THEN gone' = gone \cup {id} /\ out' = out
    ELSE out' = out \ {id} /\ gone' = gone

AllocId ==
    LET r == alloc_id(mgr) IN
    /\ Exhausted(mgr) \/ TakesFree(mgr) \/ Cardinality(out) < MaxIds
    /\ mgr' = r.mgr
    /\ last' = Call("alloc", 0, r.res)
    /\ IF r.res.tag = "Ok" THEN Took(r.res.val) ELSE UNCHANGED <<gone, out>>
    /\ UNCHANGED <<low, panicked, notIdVars>>

PeekNextId ==
    /\ last' = Call("peek", 0, peek_next_id(mgr))
    /\ UNCHANGED <<mgr, low, gone, out, panicked, notIdVars>>

\* recycle_id called with an outstanding id: one of the window, or the first
\* or the last of the ids allocated before it.
RecycleId ==
    \E id \in out \cup {i \in {1, low} : IsOutstanding(i)} :
        /\ mgr' = recycle_id(mgr, id)
        /\ last' = Call("recycle", id, NoResult)
        /\ Gave(id)
        /\ UNCHANGED <<low, panicked, notIdVars>>

NextId == AllocId \/ PeekNextId \/ RecycleId

(***************************************************************************)
(* The id manager driven by a caller that may hand recycle_id any u32:     *)
(* recycle_id takes the id without checking it.                            *)
(***************************************************************************)
\* 0, client ids (held or not), the first server id, u32::MAX.
MisuseIds == {0, 1, 2, IncU32(CLIENT_MAX_ID), -1}

\* `self.next += 1` overflows.
alloc_id_overflows(m) == ~Exhausted(m) /\ ~TakesFree(m) /\ IncOverflows(m.next)

\* `top + 1` overflows inside the loop.
RECURSIVE SweepOverflows(_)
SweepOverflows(m) ==
    /\ m.free_list # <<>>
    /\ \/ IncOverflows(HeapPeek(m.free_list))
       \/ /\ IncU32(HeapPeek(m.free_list)) = m.next
          /\ SweepOverflows([next |-> DecU32(m.next), free_list |-> HeapPop(m.free_list)])

\* `self.next - 1` or `top + 1` overflows.
recycle_id_overflows(m, id) ==
    \/ DecOverflows(m.next)
    \/ id = DecU32(m.next) /\ SweepOverflows([m EXCEPT !.next = DecU32(m.next)])

\* An overflowing step panics in a debug build and wraps in a release build.
Builds == {"debug", "release"}

AllocAny ==
    \E build \in Builds :
        LET r == alloc_id(mgr) IN
        /\ ~panicked
        /\ Exhausted(mgr) \/ TakesFree(mgr) \/ Cardinality(out) < MaxIds
        /\ IF alloc_id_overflows(mgr) /\ build = "debug"
           THEN panicked' = TRUE /\ UNCHANGED <<mgr, last, gone, out>>
           ELSE /\ mgr' = r.mgr
                /\ last' = Call("alloc", 0, r.res)
                /\ IF r.res.tag = "Ok" THEN Took(r.res.val) ELSE UNCHANGED <<gone, out>>
                /\ UNCHANGED panicked
        /\ UNCHANGED <<low, notIdVars>>

RecycleAny ==
    \E build \in Builds, id \in MisuseIds \cup out :
        /\ ~panicked
        /\ id = DecU32(mgr.next) \/ Len(mgr.free_list) < MaxFree
        /\ IF recycle_id_overflows(mgr, id) /\ build = "debug"
           THEN panicked' = TRUE /\ UNCHANGED <<mgr, last, gone, out>>
           ELSE /\ mgr' = recycle_id(mgr, id)
                /\ last' = Call("recycle", id, NoResult)
                /\ Gave(id)
                /\ UNCHANGED panicked
        /\ UNCHANGED <<low, notIdVars>>

NextMisuse == AllocAny \/ RecycleAny

(***************************************************************************)
(* The wire codec.  A buffer is a sequence of bytes; offsets are 0-based   *)
(* as in the code.  A wire value is a record tagged with its type; strings *)
(* and arrays carry their bytes.                                           *)
(***************************************************************************)
pad_to_32_bits(pos) == ((pos + 3) \div 4) * 4

\* write_u32::<LE>, write_i32::<LE>, write_u16::<LE>: the n low bytes of v.
LeBytes(v, n) == [i \in 1..n |-> (v \div (256 ^ (i - 1))) % 256]

\* read_u32::<LE> / read_i32::<LE> (as a 32-bit pattern) and read_u16::<LE>.
FromLe32(b) ==
    b[1] + 256 * b[2] + 65536 * b[3]
         + 16777216 * (IF b[4] >= 128 THEN b[4] - 256 ELSE b[4])
FromLe16(b) == b[1] + 256 * b[2]

\* Cursor::new(data) followed by writes of `bytes` from offset 0.
Put(data, bytes) ==
    [i \in 1..Len(data) |-> IF i <= Len(bytes) THEN bytes[i] ELSE data[i]]

Zeros(n) == [i \in 1..n |-> 0]

U32(v) == [t |-> "u32", v |-> v]
I32(v) == [t |-> "i32", v |-> v]
Fixed(v) == [t |-> "fixed", v |-> v]
Array(data) == [t |-> "array", data |-> data]
String(data) == [t |-> "string", data |-> data]
DynamicallyTypedNewId(interface, version, id) ==
    [t |-> "new_id", interface |-> interface, version |-> version, id |-> id]
MessageHeader(object_id, opcode, size) ==
    [t |-> "header", object_id |-> object_id, opcode |-> opcode, size |-> size]
\* The `()` a generated struct holds in place of an fd argument.
Unit == [t |-> "unit"]
\* A generated request or event struct.
MessageStruct(args) == [t |-> "message", args |-> args]

\* str::as_bytes of the interface names that travel as strings.
as_bytes(name) ==
    CASE name = "wl_seat" -> <<119, 108, 95, 115, 101, 97, 116>>
      [] name = "wl_compositor" ->
             <<119, 108, 95, 99, 111, 109, 112, 111, 115, 105, 116, 111, 114>>
      [] OTHER -> <<>>

\* MessageSize::size
RECURSIVE MessageSize(_)
MessageSize(v) ==
    CASE v.t \in {"u32", "i32", "fixed"} -> 4
      [] v.t = "header" -> 8
      [] v.t = "unit" -> 0
      [] v.t = "array" -> Len(v.data) + 4
      [] v.t = "string" -> Len(v.data) + 5
      [] v.t = "new_id" -> (Len(v.interface) + 5) + 4 + 4
      [] v.t = "message" ->
             IF v.args = <<>> THEN 0
             ELSE MessageSize(Head(v.args)) + MessageSize(MessageStruct(Tail(v.args)))

SerdeOk(data, n) == [ok |-> TRUE, data |-> data, n |-> n, err |-> ""]
SerdeErr(e) == [ok |-> FALSE, data |-> <<>>, n |-> 0, err |-> e]

\* impl Encode for MessageHeader with size written before opcode.
MessageHeader_encode_size_first(h, data) ==
    IF Len(data) < 8 THEN SerdeErr("InvalidSize")
    ELSE SerdeOk(Put(data, LeBytes(h.object_id, 4) \o LeBytes(h.size, 2)
                              \o LeBytes(h.opcode, 2)), 8)

\* impl Encode for MessageHeader (impl_serde!, fields in declaration order).
MessageHeader_encode(h, data) ==
    IF Len(data) < 8 THEN SerdeErr("InvalidSize")
    ELSE SerdeOk(Put(data, LeBytes(h.object_id, 4) \o LeBytes(h.opcode, 2)
                              \o LeBytes(h.size, 2)), 8)

MessageEncoder_new(data) == [data |-> data, pos |-> 0, ok |-> TRUE, err |-> ""]

\* MessageEncoder::write that leaves the cursor right behind the value.
write_unpadded(e, v, r) ==
    IF e.pos > Len(e.data) THEN [e EXCEPT !.ok = FALSE, !.err = "panic"]
    ELSE IF ~r.ok THEN [e EXCEPT !.ok = FALSE, !.err = r.err]
    ELSE [data |-> SubSeq(e.data, 1, e.pos) \o r.data,
          pos |-> e.pos + MessageSize(v), ok |-> TRUE, err |-> ""]

\* MessageEncoder::write, given r, the outcome of value.encode on the rest of
\* the buffer: slicing past the end panics, an error is passed on, otherwise
\* the cursor moves to pad_to_32_bits(position + value.size()).
write(e, v, r) ==
    IF e.pos > Len(e.data) THEN [e EXCEPT !.ok = FALSE, !.err = "panic"]
    ELSE IF ~r.ok THEN [e EXCEPT !.ok = FALSE, !.err = r.err]
    ELSE [data |-> SubSeq(e.data, 1, e.pos) \o r.data,
          pos |-> pad_to_32_bits(e.pos + MessageSize(v)), ok |-> TRUE, err |-> ""]

RECURSIVE encode(_, _), write_all(_, _)

MessageEncoder_write(e, v) ==
    IF ~e.ok THEN e
    ELSE write(e, v, encode(v, SubSeq(e.data, e.pos + 1, Len(e.data))))

\* `traverser.write(&self.arg)?;` for each argument in turn.
write_all(e, vs) ==
    IF vs = <<>> \/ ~e.ok THEN e
    ELSE write_all(MessageEncoder_write(e, Head(vs)), Tail(vs))

\* Encode::encode
encode(v, data) ==
    CASE v.t \in {"u32", "i32", "fixed"} ->
             IF Len(data) < 4 THEN SerdeErr("InvalidSize")
             ELSE SerdeOk(Put(data, LeBytes(v.v, 4)), 4)
      [] v.t = "header" -> MessageHeader_encode(v, data)
      [] v.t = "unit" -> SerdeOk(data, 0)
      [] v.t = "array" ->
             IF Len(data) < MessageSize(v) THEN SerdeErr("InvalidSize")
             ELSE SerdeOk(Put(data, LeBytes(Len(v.data), 4) \o v.data), MessageSize(v))
      [] v.t = "string" ->
             IF Len(data) < MessageSize(v) THEN SerdeErr("InvalidSize")
             ELSE SerdeOk(Put(data, LeBytes(Len(v.data), 4) \o v.data \o <<0>>),
                          MessageSize(v))
      [] v.t = "new_id" ->
             LET e == write_all(MessageEncoder_new(data),
                                <<String(v.interface), U32(v.version), U32(v.id)>>)
             IN  IF e.ok THEN SerdeOk(e.data, MessageSize(v)) ELSE SerdeErr(e.err)
      [] v.t = "message" ->
             LET e == write_all(MessageEncoder_new(data), v.args)
             IN  IF e.ok THEN SerdeOk(e.data, e.pos) ELSE SerdeErr(e.err)

DecodeOk(v) == [ok |-> TRUE, val |-> v, err |-> ""]
DecodeErr(e) == [ok |-> FALSE, val |-> Unit, err |-> e]

\* impl Decode for MessageHeader
MessageHeader_decode(data) ==
    IF Len(data) < 8 THEN DecodeErr("InvalidSize")
    ELSE DecodeOk(MessageHeader(FromLe32(SubSeq(data, 1, 4)),
                                FromLe16(SubSeq(data, 5, 6)),
                                FromLe16(SubSeq(data, 7, 8))))

\* std::str::from_utf8 on the bytes the model uses (ASCII, or a lone 0xff).
from_utf8_ok(bytes) == \A i \in 1..Len(bytes) : bytes[i] < 128

MessageDecoder_new(data) == [data |-> data, pos |-> 0, ok |-> TRUE, err |-> "", vals |-> <<>>]

RECURSIVE decode(_, _)

\* MessageDecoder::read / MessageEncoder::read
MessageDecoder_read(d, t) ==
    IF ~d.ok THEN d
    ELSE IF d.pos > Len(d.data) THEN [d EXCEPT !.ok = FALSE, !.err = "panic"]
    ELSE LET r == decode(t, SubSeq(d.data, d.pos + 1, Len(d.data)))
         IN  IF ~r.ok THEN [d EXCEPT !.ok = FALSE, !.err = r.err]
             ELSE [d EXCEPT !.pos = pad_to_32_bits(d.pos + MessageSize(r.val)),
                            !.vals = Append(d.vals, r.val)]

\* Decode::decode for the type tagged t
decode(t, data) ==
    CASE t \in {"u32", "i32", "fixed"} ->
             IF Len(data) < 4 THEN DecodeErr("InvalidSize")
             ELSE DecodeOk([t |-> t, v |-> FromLe32(SubSeq(data, 1, 4))])
      [] t = "header" -> MessageHeader_decode(data)
      [] t = "unit" -> DecodeOk(Unit)
      [] t = "array" ->
             IF Len(data) < 4 THEN DecodeErr("InvalidSize")
             ELSE LET size == FromLe32(SubSeq(data, 1, 4)) IN
                  IF size < 0 \/ Len(data) < size + 4 THEN DecodeErr("InvalidSize")
                  ELSE DecodeOk(Array(SubSeq(data, 5, size + 4)))
      [] t = "string" ->
             IF Len(data) < 4 THEN DecodeErr("InvalidSize")
             ELSE LET size == FromLe32(SubSeq(data, 1, 4)) IN
                  IF size < 0 \/ Len(data) < size + 5 THEN DecodeErr("InvalidSize")
                  ELSE IF data[size + 5] # 0 THEN DecodeErr("panic")
                  ELSE IF ~from_utf8_ok(SubSeq(data, 5, size + 4))
                       THEN DecodeErr("InvalidSize")
                  ELSE DecodeOk(String(SubSeq(data, 5, size + 4)))
      [] t = "new_id" ->
             LET d == MessageDecoder_read(MessageDecoder_read(MessageDecoder_read(
                          MessageDecoder_new(data), "string"), "u32"), "u32")
             IN  IF d.ok THEN DecodeOk(DynamicallyTypedNewId(d.vals[1].data,
                                                            d.vals[2].v, d.vals[3].v))
                 ELSE DecodeErr(d.err)

\* `(MessageHeader::SIZE + message.size()) as u16`
header_size(message) == (8 + MessageSize(message)) % 65536

\* encode_message: the header, then the message, through one MessageEncoder.
encode_message(message, object_id, opcode, data) ==
    LET header == MessageHeader(object_id, opcode, header_size(message))
        e == MessageEncoder_write(MessageEncoder_write(MessageEncoder_new(data), header),
                                  message)
    IN  [ok |-> e.ok, err |-> e.err, n |-> e.pos, data |-> e.data, header |-> header]

\* The buffer a generated request method encodes into:
\* `vec![0u8; request.size() + MessageHeader::SIZE]`.
request_buffer(message) == Zeros(MessageSize(message) + 8)

(***************************************************************************)
(* Object creation through proxies, the writer task and the server.        *)
(***************************************************************************)
\* Tasks are numbered from 1; 0 stands for no task.
Tasks == 1..NumTasks

EmptyMap == [k \in {} |-> ""]
MapInsert(m, k, v) == [x \in DOMAIN m \cup {k} |-> IF x = k THEN v ELSE m[x]]
MapGet(m, k) == IF k \in DOMAIN m THEN m[k] ELSE "none"

\* The requests of the protocol the application uses: the interface they
\* belong to, their opcode (declaration index), the interface of the new_id
\* they carry ("" none, "*" named by the caller at run time), destructor or not.
RequestTable ==
    { [on |-> "wl_display",  name |-> "sync",         opcode |-> 0, new |-> "wl_callback", destructor |-> FALSE],
      [on |-> "wl_display",  name |-> "get_registry", opcode |-> 1, new |-> "wl_registry", destructor |-> FALSE],
      [on |-> "wl_registry", name |-> "bind",         opcode |-> 0, new |-> "*",           destructor |-> FALSE],
      [on |-> "wl_seat",     name |-> "release",      opcode |-> 3, new |-> "",            destructor |-> TRUE] }

\* Interfaces a caller names in wl_registry.bind.
BindInterfaces == {"wl_seat", "wl_compositor"}

NoRequest ==
    [req |-> "", opcode |-> 0, target |-> 0, iface |-> "", destructor |-> FALSE,
     peeked |-> 0, id |-> 0, step |-> 0, contended |-> FALSE, by |-> 0]

InitConn ==
    /\ display = 0
    /\ id_manager = IdManagerInner_new
    /\ interface_map = EmptyMap
    /\ objects = EmptyMap
    /\ held = {}
    /\ channel = <<>>
    /\ written = <<>>
    /\ incoming = <<>>
    /\ acked = {}
    /\ running = 0
    /\ tpc = [t \in Tasks |-> "idle"]
    /\ treq = [t \in Tasks |-> NoRequest]

\* DisplayConnection::new: wl_display is registered under the peeked id and the
\* display proxy then allocates its id.
DisplayConnection_new ==
    LET init_id == peek_next_id(id_manager)
        r == alloc_id(id_manager)
    IN  /\ display = 0
        /\ init_id.tag = "Ok" /\ r.res.tag = "Ok"
        /\ interface_map' = MapInsert(interface_map, init_id.val, "wl_display")
        /\ id_manager' = r.mgr
        /\ display' = r.res.val
        /\ UNCHANGED <<objects, held, channel, written, incoming, acked, running,
                       tpc, treq, notConnVars>>

\* Proxies are not Send (InterfaceMap is an Rc) and the request methods never
\* await: once a task has entered one, no other task of the thread runs until
\* it has returned.
MaySchedule_preemptive(t) == TRUE

MaySchedule(t) == running \in {0, t}

\* Proxy::create_object / create_object_raw: register_interface (peek, then
\* insert under the peeked id), then Proxy::new (alloc).
create_object_steps_alloc_first == <<"alloc", "peek", "insert">>

create_object_steps == <<"peek", "insert", "alloc">>

StepAfter(rq) ==
    IF rq.step < Len(create_object_steps)
    THEN create_object_steps[rq.step + 1] ELSE "enqueue"

\* The proxies a request can be issued on.
Targets == held \cup {[id |-> display, iface |-> "wl_display", by |-> 0,
                       contended |-> FALSE, serial |-> 0]}

\* The ids of the objects whose request failed to encode: registered, and in
\* no request and with no task.
Dropped ==
    {k \in DOMAIN interface_map \ {display} :
        /\ \A i \in 1..Len(written) : written[i].new_id # k
        /\ \A i \in 1..Len(channel) : channel[i].new_id # k
        /\ \A u \in Tasks : tpc[u] = "idle" \/ treq[u].peeked # k}

\* A task is woken with a request to issue.
Wake(t) ==
    \E p \in Targets, r \in RequestTable,
       i \in BindInterfaces \cup {""} :
        /\ display # 0
        /\ tpc[t] = "idle"
        /\ r.on = p.iface
        /\ (r.new = "*") <=> (i # "")
        /\ \A u \in Tasks : (tpc[u] # "idle" /\ treq[u].target = p.id)
                                => (~r.destructor /\ ~treq[u].destructor)
        /\ Len(written) + Len(channel) + Cardinality(Dropped)
             + Cardinality({u \in Tasks : tpc[u] # "idle"}) < MaxRequests
        /\ tpc' = [tpc EXCEPT ![t] = "ready"]
        /\ treq' = [treq EXCEPT ![t] =
                      [NoRequest EXCEPT !.req = r.name, !.opcode = r.opcode,
                                        !.target = p.id, !.destructor = r.destructor,
                                        !.by = t,
                                        !.iface = IF r.new = "*" THEN i ELSE r.new]]
        /\ UNCHANGED <<display, id_manager, interface_map, objects, held, channel,
                       written, incoming, acked, running, notConnVars>>

\* The task enters the generated request method.
Begin(t) ==
    /\ tpc[t] = "ready"
    /\ MaySchedule(t)
    /\ running' = t
    /\ tpc' = [tpc EXCEPT ![t] = IF treq[t].iface = "" THEN "enqueue"
                                 ELSE StepAfter(treq[t])]
    /\ treq' = [treq EXCEPT ![t].step = IF treq[t].iface = "" THEN 0 ELSE 1]
    /\ UNCHANGED <<display, id_manager, interface_map, objects, held, channel,
                   written, incoming, acked, notConnVars>>

Advance(t, rq) ==
    /\ tpc' = [tpc EXCEPT ![t] = StepAfter(rq)]
    /\ treq' = [treq EXCEPT ![t] = [rq EXCEPT !.step = rq.step + 1]]

\* register_interface: `self.id_manager.peek_next_id().unwrap()`
Peek(t) ==
    LET r == peek_next_id(id_manager) IN
    /\ tpc[t] = "peek"
    /\ MaySchedule(t)
    /\ IF r.tag = "Ok"
       THEN Advance(t, [treq[t] EXCEPT !.peeked = r.val])
       ELSE tpc' = [tpc EXCEPT ![t] = "panicked"] /\ UNCHANGED treq
    /\ UNCHANGED <<display, id_manager, interface_map, objects, held, channel,
                   written, incoming, acked, running, notConnVars>>

\* register_interface: `map.insert(new_id, interface.to_string())`
Insert(t) ==
    /\ tpc[t] = "insert"
    /\ MaySchedule(t)
    /\ interface_map' = MapInsert(interface_map, treq[t].peeked, treq[t].iface)
    /\ Advance(t, treq[t])
    /\ UNCHANGED <<display, id_manager, objects, held, channel, written, incoming,
                   acked, running, notConnVars>>

\* Proxy::new: `shared_manager.alloc_id()?`; the generated method unwraps it.
Alloc(t) ==
    LET r == alloc_id(id_manager) IN
    /\ tpc[t] = "alloc"
    /\ MaySchedule(t)
    /\ id_manager' = r.mgr
    /\ IF r.res.tag = "Ok"
       THEN Advance(t, [treq[t] EXCEPT !.id = r.res.val,
                           !.contended = \E u \in Tasks : u # t /\ tpc[u] # "idle"])
       ELSE tpc' = [tpc EXCEPT ![t] = "panicked"] /\ UNCHANGED treq
    /\ UNCHANGED <<display, interface_map, objects, held, channel, written, incoming,
                   acked, running, notConnVars>>

\* The generated request struct: a statically typed new id is a u32, the new
\* id of wl_registry.bind follows the global's name and carries the interface
\* name and the version the caller passed.
RequestStruct(rq) ==
    MessageStruct(CASE rq.req = "bind" ->
                           <<U32(1), DynamicallyTypedNewId(as_bytes(rq.iface), 1, rq.id)>>
                    [] rq.iface # "" -> <<U32(rq.id)>>
                    [] OTHER -> <<>>)

\* What the request carries (its encoded buffer), who enqueued it as which
\* request of the connection, and what the interface map held for its new id
\* when it was put on the channel.
RequestMessage(rq) ==
    [object_id |-> rq.target, opcode |-> rq.opcode, req |-> rq.req,
     new_id |-> rq.id, iface |-> rq.iface, destructor |-> rq.destructor,
     mapped |-> MapGet(interface_map, rq.id),
     buffer |-> encode_message(RequestStruct(rq), rq.target, rq.opcode,
                               request_buffer(RequestStruct(rq))).data,
     by |-> rq.by, seq |-> Len(written) + Len(channel) + 1]

\* `encode_message(&request, object_id, opcode, &mut buffer)?`
EncodeFails(rq) ==
    ~encode_message(RequestStruct(rq), rq.target, rq.opcode,
                    request_buffer(RequestStruct(rq))).ok

\* encode_message, then Proxy::send_request; the method returns the new object
\* (a destructor has consumed the proxy it was called on).  When encoding
\* fails the method returns the error: nothing is sent and the new object is
\* dropped, its id and its interface map entry stay.
Enqueue(t) ==
    /\ tpc[t] = "enqueue"
    /\ MaySchedule(t)
    /\ channel' = IF EncodeFails(treq[t]) THEN channel
                  ELSE Append(channel, RequestMessage(treq[t]))
    /\ held' = (held \ {p \in held : treq[t].destructor /\ p.id = treq[t].target})
                 \cup IF treq[t].iface = "" \/ EncodeFails(treq[t]) THEN {}
                      ELSE {[id |-> treq[t].id, iface |-> treq[t].iface, by |-> t,
                             contended |-> treq[t].contended,
                             serial |-> Len(written) + Len(channel) + 1]}
    /\ running' = 0
    /\ tpc' = [tpc EXCEPT ![t] = "idle"]
    /\ treq' = [treq EXCEPT ![t] = NoRequest]
    /\ UNCHANGED <<display, id_manager, interface_map, objects, written, incoming,
                   acked, notConnVars>>

\* The writer task sending the newest queued request first.
WriterSend_newest_first ==
    /\ worker.state = "running"
    /\ channel # <<>>
    /\ written' = Append(written, channel[Len(channel)])
    /\ channel' = SubSeq(channel, 1, Len(channel) - 1)
    /\ UNCHANGED <<display, id_manager, interface_map, objects, held, incoming,
                   acked, running, tpc, treq, notConnVars>>

\* The writer task: `request_receiver.recv()` then `send_with_ancillary`.
WriterSend ==
    /\ worker.state = "running"
    /\ channel # <<>>
    /\ written' = Append(written, Head(channel))
    /\ channel' = Tail(channel)
    /\ UNCHANGED <<display, id_manager, interface_map, objects, held, incoming,
                   acked, running, tpc, treq, notConnVars>>

\* The server answers a destructor request with wl_display.delete_id.
DeleteIdEvent(x) == [object_id |-> 1, opcode |-> 1, id |-> x]

ServerDeleteId ==
    \E i \in 1..Len(written) :
        /\ written[i].destructor
        /\ \A j \in 1..Len(incoming) : incoming[j] # DeleteIdEvent(written[i].object_id)
        /\ written[i].object_id \notin acked
        /\ incoming' = Append(incoming, DeleteIdEvent(written[i].object_id))
        /\ UNCHANGED <<display, id_manager, interface_map, objects, held, channel,
                       written, acked, running, tpc, treq, notConnVars>>

\* DisplayConnection::handle_event: next_event looks the interface up, the
\* message is decoded and handed to the handler.  Nothing in it touches the
\* id manager, the interface map or the store.
HandleEvent ==
    /\ incoming # <<>>
    /\ running = 0
    /\ incoming' = Tail(incoming)
    /\ acked' = IF MapGet(interface_map, Head(incoming).object_id) = "wl_display"
                   /\ Head(incoming).opcode = 1
                THEN acked \cup {Head(incoming).id} ELSE acked
    /\ UNCHANGED <<display, id_manager, interface_map, objects, held, channel,
                   written, running, tpc, treq, notConnVars>>

\* InterfaceStore::insert_interface with a proxy the application holds.
StoreInsert ==
    \E p \in held :
        /\ running = 0
        /\ \A u \in Tasks : tpc[u] # "idle" => treq[u].target # p.id
        /\ objects' = MapInsert(objects, p.id,
                                [interface |-> p.iface, version |-> 1, proxy |-> p])
        /\ held' = held \ {p}
        /\ UNCHANGED <<display, id_manager, interface_map, channel, written, incoming,
                       acked, running, tpc, treq, notConnVars>>

\* InterfaceStore::remove
StoreRemove ==
    \E id \in DOMAIN objects :
        /\ running = 0
        /\ objects' = [k \in DOMAIN objects \ {id} |-> objects[k]]
        /\ UNCHANGED <<display, id_manager, interface_map, held, channel, written,
                       incoming, acked, running, tpc, treq, notConnVars>>

NextConn ==
    \/ DisplayConnection_new
    \/ \E t \in Tasks : Wake(t)
    \/ \E t \in Tasks : Begin(t)
    \/ \E t \in Tasks : Peek(t)
    \/ \E t \in Tasks : Insert(t)
    \/ \E t \in Tasks : Alloc(t)
    \/ \E t \in Tasks : Enqueue(t)
    \/ WriterSend
    \/ ServerDeleteId
    \/ HandleEvent
    \/ StoreInsert
    \/ StoreRemove

(***************************************************************************)
(* Message::try_decode.  A generated event type is described by its        *)
(* interface name and, per event in declaration order, the least body      *)
(* length its struct decodes from; a body is described by its length.      *)
(***************************************************************************)
InterfaceNames == {"wl_display", "wl_registry", "wl_callback"}
\* Event lists: one u32 event; a (u32, u32) event followed by a u32 event.
EventLists == {<<4>>, <<8, 4>>}
EventTypes == [name : InterfaceNames, events : EventLists]
Opcodes == 0..2
BodyLens == {0, 4, 8}

UnknownInterface(name) == [tag |-> "UnknownInterface", name |-> name]
UnknownOpcode(u) == [tag |-> "UnknownOpcode", opcode |-> u]
DecodeError == [tag |-> "DecodeError"]
\* A decoded event: the variant (by opcode) of the event type `of`, wrapped in
\* `inr` Inr constructors and one Inl when it comes out of a coproduct.
Decoded(of, variant) == [tag |-> "Ok", of |-> of, variant |-> variant, inr |-> 0]

\* The generated `impl Message for <Interface>Event`.
Event_try_decode(ty, interface, opcode, len) ==
    IF interface # ty.name THEN UnknownInterface(interface)
    ELSE IF opcode + 1 \in DOMAIN ty.events
         THEN IF len >= ty.events[opcode + 1]
              THEN Decoded(ty, opcode) ELSE DecodeError
         ELSE UnknownOpcode(opcode)

\* `.map(Self::Inr)`
Inr(r) == IF r.tag = "Ok" THEN [r EXCEPT !.inr = r.inr + 1] ELSE r

\* impl Message for Coproduct<A, B> with every error of A falling through.
RECURSIVE Coproduct_try_decode_falls_through(_, _, _, _)
Coproduct_try_decode_falls_through(ms, interface, opcode, len) ==
    IF ms = <<>>
    THEN [res |-> UnknownInterface(interface), tried |-> 0]
    ELSE LET a == Event_try_decode(Head(ms), interface, opcode, len)
             b == Coproduct_try_decode_falls_through(Tail(ms), interface, opcode, len)
         IN  IF a.tag = "Ok" THEN [res |-> a, tried |-> 1]
             ELSE [res |-> Inr(b.res), tried |-> b.tried + 1]

\* impl Message for Coproduct<A, B> with no error of A falling through.
RECURSIVE Coproduct_try_decode_head_only(_, _, _, _)
Coproduct_try_decode_head_only(ms, interface, opcode, len) ==
    IF ms = <<>>
    THEN [res |-> UnknownInterface(interface), tried |-> 0]
    ELSE [res |-> Event_try_decode(Head(ms), interface, opcode, len), tried |-> 1]

\* impl Message for Coproduct<A, B> and for CNil: the result, and how many
\* members' try_decode ran.
RECURSIVE Coproduct_try_decode(_, _, _, _)
Coproduct_try_decode(ms, interface, opcode, len) ==
    IF ms = <<>>
    THEN [res |-> UnknownInterface(interface), tried |-> 0]
    ELSE LET a == Event_try_decode(Head(ms), interface, opcode, len)
             b == Coproduct_try_decode(Tail(ms), interface, opcode, len)
         IN  IF a.tag = "Ok" THEN [res |-> a, tried |-> 1]
             ELSE IF a.tag = "UnknownInterface"
                  THEN [res |-> Inr(b.res), tried |-> b.tried + 1]
                  ELSE [res |-> a, tried |-> 1]

SeqsUpTo(S, n) == UNION {[1..k -> S] : k \in 0..n}

NoDecode == [interface |-> "", opcode |-> 0, len |-> 0,
             res |-> UnknownInterface(""), tried |-> 0, called |-> FALSE]

InitDecAny ==
    /\ coprod \in SeqsUpTo(EventTypes, MaxMembers)
    /\ dec = NoDecode

InitDec ==
    /\ coprod = <<>>
    /\ dec = NoDecode

TryDecode ==
    \E interface \in InterfaceNames \cup {"wl_output"}, opcode \in Opcodes,
       len \in BodyLens :
        LET r == Coproduct_try_decode(coprod, interface, opcode, len) IN
        /\ dec' = [interface |-> interface, opcode |-> opcode, len |-> len,
                   res |-> r.res, tried |-> r.tried, called |-> TRUE]
        /\ UNCHANGED <<coprod, notDecVars>>

NextDec == TryDecode


(***************************************************************************)
(* A MessageEncoder session as in test_message_traverser: values are       *)
(* written one after the other, the cursor is set back to 0 and the values *)
(* are read back in the same order and types; and encode_message on a      *)
(* generated struct holding the same values as arguments.                  *)
(***************************************************************************)
WireValues ==
    { U32(1), U32(-1), I32(-2), Fixed(-256),
      Array(<<4, 4, 4, 4>>), Array(<<7>>),
      String(<<97>>), String(<<116, 101, 115, 116>>),
      DynamicallyTypedNewId(as_bytes("wl_seat"), 5, 3),
      MessageHeader(1, 3, 16), Unit }

\* The bytes the values take with each rounded up to a multiple of 4.
RECURSIVE PaddedSize(_)
PaddedSize(vs) ==
    IF vs = <<>> THEN 0
    ELSE pad_to_32_bits(MessageSize(Head(vs))) + PaddedSize(Tail(vs))

NoEncode ==
    [called |-> FALSE, args |-> <<>>, room |-> 0, len |-> 0,
     res |-> [ok |-> FALSE, err |-> "", n |-> 0, data |-> <<>>,
              header |-> MessageHeader(0, 0, 0)]]

InitWireOf(vs) ==
    /\ wire = [vals |-> vs, e |-> MessageEncoder_new(Zeros(PaddedSize(vs))),
               offs |-> <<>>, phase |-> "write",
               d |-> MessageDecoder_new(<<>>), roffs |-> <<>>]
    /\ enc = NoEncode

InitWireAny == \E vs \in UNION {[1..k -> WireValues] : k \in 0..MaxFields} : InitWireOf(vs)

InitWire == InitWireOf(<<>>)

\* traverser.write(&value)
WireWrite ==
    /\ wire.phase = "write" /\ ~enc.called
    /\ Len(wire.offs) < Len(wire.vals)
    /\ wire.e.ok
    /\ wire' = [wire EXCEPT
                  !.e = MessageEncoder_write(wire.e, wire.vals[Len(wire.offs) + 1]),
                  !.offs = Append(wire.offs, wire.e.pos)]
    /\ UNCHANGED <<enc, notWireVars>>

\* traverser.set_position(0)
WireRewind ==
    /\ wire.phase = "write" /\ wire.e.ok
    /\ wire.vals # <<>> /\ Len(wire.offs) = Len(wire.vals)
    /\ wire' = [wire EXCEPT !.phase = "read", !.d = MessageDecoder_new(wire.e.data)]
    /\ UNCHANGED <<enc, notWireVars>>

\* traverser.read::<T>()
WireRead ==
    /\ wire.phase = "read" /\ wire.d.ok
    /\ Len(wire.roffs) < Len(wire.vals)
    /\ wire' = [wire EXCEPT
                  !.d = MessageDecoder_read(wire.d, wire.vals[Len(wire.roffs) + 1].t),
                  !.roffs = Append(wire.roffs, wire.d.pos)]
    /\ UNCHANGED <<enc, notWireVars>>

\* encode_message on the struct with these arguments, into the buffer the
\* generated request method allocates or into one with room to spare.
EncodeMessage ==
    \E object_id \in {1, 3}, opcode \in {0, 1}, room \in {0, 4} :
        LET message == MessageStruct(wire.vals) IN
        /\ wire.phase = "write" /\ wire.offs = <<>> /\ ~enc.called
        /\ \A i \in 1..Len(wire.vals) : wire.vals[i].t # "header"
        /\ enc' = [called |-> TRUE, args |-> wire.vals, room |-> room, len |-> 0,
                   res |-> encode_message(message, object_id, opcode,
                                          request_buffer(message) \o Zeros(room))]
        /\ UNCHANGED <<wire, notWireVars>>

\* How far the lengths drawn lie to either side of the first length whose
\* message no longer fits a 16 bit size, in words.
LargeSpan == 6

\* The array lengths, in bytes, of the large messages: whole words, so that
\* the padded and the unpadded length agree.  8 + 4 + 4 * 16381 = 65536.
LargeLens == {4 * k : k \in (16381 - LargeSpan)..(16381 + LargeSpan)}

InitWireLarge ==
    \E len \in LargeLens, room \in {0, 4} :
        /\ wire = [vals |-> <<>>, e |-> MessageEncoder_new(<<>>),
                   offs |-> <<>>, phase |-> "write",
                   d |-> MessageDecoder_new(<<>>), roffs |-> <<>>]
        /\ enc = [NoEncode EXCEPT !.len = len, !.room = room]

\* encode_message on a struct with one array argument of enc.len bytes, into
\* the buffer the generated request method allocates or one with room to
\* spare.  Of the bytes written the call record keeps the header.
EncodeLargeMessage ==
    \E object_id \in {1, 3}, opcode \in {0, 1} :
        LET message == MessageStruct(<<Array(Zeros(enc.len))>>)
            res == encode_message(message, object_id, opcode,
                                  request_buffer(message) \o Zeros(enc.room))
        IN  /\ ~enc.called /\ enc.len > 0
            /\ enc' = [enc EXCEPT !.called = TRUE,
                                  !.res = [res EXCEPT !.data = SubSeq(res.data, 1, 8)]]
            /\ UNCHANGED <<wire, notWireVars>>

NextWire == WireWrite \/ WireRewind \/ WireRead \/ EncodeMessage

(***************************************************************************)
(* The read side: the server's events, the writer task's failure,          *)
(* DisplayConnection::handle_event and the store-aware handler.            *)
(***************************************************************************)
MaxEvents == 2

codecVars == <<idVars, decVars, wireVars, storeVars, fixedVars, pathVars, writerVars, inputVars, readVars, genVars>>

\* The generated `impl Decode` of a message struct: one traverser.read()? per
\* argument.
RECURSIVE read_all(_, _)
read_all(d, ts) ==
    IF ts = <<>> THEN d ELSE read_all(MessageDecoder_read(d, Head(ts)), Tail(ts))

Message_decode(ts, data) == read_all(MessageDecoder_new(data), ts)

\* The generated `impl Message for <Interface>Event` over the bytes of the
\* body; ty.events lists the argument types of each event.  A failed assert!
\* inside a decode unwinds through it.
Event_try_decode_body(ty, interface, opcode, data) ==
    IF interface # ty.name THEN UnknownInterface(interface)
    ELSE IF opcode + 1 \in DOMAIN ty.events
         THEN LET d == Message_decode(ty.events[opcode + 1], data)
              IN  IF d.ok THEN Decoded(ty, opcode)
                  ELSE IF d.err = "panic" THEN [tag |-> "panic"]
                  ELSE DecodeError
         ELSE UnknownOpcode(opcode)

\* impl Message for Coproduct<A, B> and for CNil, over the bytes of the body.
RECURSIVE Coproduct_try_decode_body(_, _, _, _)
Coproduct_try_decode_body(ms, interface, opcode, data) ==
    IF ms = <<>>
    THEN UnknownInterface(interface)
    ELSE LET a == Event_try_decode_body(Head(ms), interface, opcode, data)
         IN  IF a.tag = "UnknownInterface"
             THEN Inr(Coproduct_try_decode_body(Tail(ms), interface, opcode, data))
             ELSE a

\* The event types the application's handler decodes, as in examples/simple.rs:
\* wl_registry (global, global_remove) and wl_display (error, delete_id).
WlRegistryEvent ==
    [name |-> "wl_registry", events |-> << <<"u32", "string", "u32">>, <<"u32">> >>]
WlDisplayEvent ==
    [name |-> "wl_display", events |-> << <<"u32", "u32", "string">>, <<"u32">> >>]

\* `const MAX_VERSION: u32 = #version`: wl_display and wl_registry are version 1.
MAX_VERSION(I) == 1

\* InterfaceStore::insert_interface
insert_interface(objs, proxy, version) ==
    MapInsert(objs, proxy.id,
              [interface |-> proxy.iface, version |-> version, proxy |-> proxy])

\* InterfaceStore::take::<I>
take(objs, I, id) ==
    IF id \notin DOMAIN objs THEN [some |-> FALSE, objects |-> objs]
    ELSE IF objs[id].interface # I \/ LtU32(objs[id].version, MAX_VERSION(I))
         THEN [some |-> FALSE, objects |-> MapInsert(objs, id, objs[id])]
         ELSE [some |-> TRUE, obj |-> objs[id],
               objects |-> [k \in DOMAIN objs \ {id} |-> objs[k]]]

\* RecvSocket::recv_with_ancillary into `slots` descriptor slots: the
\* descriptors received are zipped with the slots.
recv_with_ancillary(ev, slots) ==
    [body |-> ev.body, fds |-> IF slots < ev.fds THEN slots ELSE ev.fds]

\* The body of wl_registry.global(1, "wl_seat", 1) as the server encodes it,
\* the same with the string's terminator overwritten, and a u32 body.
GlobalBody ==
    write_all(MessageEncoder_new(Zeros(20)),
              <<U32(1), String(as_bytes("wl_seat")), U32(1)>>).data
GlobalBodyNoNul == [GlobalBody EXCEPT ![16] = 1]
U32Body(v) == LeBytes(v, 4)

\* What the server sends: well-formed events of the registry and the display,
\* a truncated body, a string without its terminator, an opcode the interface
\* does not have, an event of an interface the handler does not decode, an
\* event of an id the client has no entry for; fds is the number of file
\* descriptors attached to the message.
ServerEvents ==
    { [object_id |-> 2, opcode |-> 0, body |-> GlobalBody,      fds |-> 0],
      [object_id |-> 2, opcode |-> 0, body |-> GlobalBodyNoNul, fds |-> 0],
      [object_id |-> 2, opcode |-> 0, body |-> U32Body(1),      fds |-> 0],
      [object_id |-> 2, opcode |-> 1, body |-> U32Body(1),      fds |-> 1],
      [object_id |-> 2, opcode |-> 2, body |-> <<>>,            fds |-> 0],
      [object_id |-> 1, opcode |-> 1, body |-> U32Body(3),      fds |-> 0],
      [object_id |-> 3, opcode |-> 0, body |-> U32Body(0),      fds |-> 1],
      [object_id |-> 4, opcode |-> 0, body |-> <<>>,            fds |-> 0] }

\* A completed handle_event call: what it read, what it returned, whether it
\* began after the writer had failed, whether it had to wait for the body.
NoEntry ==
    [kind |-> "", n |-> 0, object_id |-> 0, opcode |-> 0, interface |-> "",
     fds_sent |-> 0, fds |-> 0, decode |-> "", result |-> "", handled |-> FALSE,
     after_failure |-> FALSE, waited |-> FALSE, before |-> <<>>, after |-> <<>>]

\* A connection on which the application has issued get_registry and
\* bind(wl_seat) and holds both proxies; neither request is written yet.
InitConnSeat ==
    LET rq1 == [NoRequest EXCEPT !.req = "get_registry", !.opcode = 1, !.target = 1,
                                 !.iface = "wl_registry", !.peeked = 2, !.id = 2,
                                 !.step = 3, !.by = 1]
        rq2 == [NoRequest EXCEPT !.req = "bind", !.opcode = 0, !.target = 2,
                                 !.iface = "wl_seat", !.peeked = 3, !.id = 3,
                                 !.step = 3, !.by = 1]
        Queued(rq, seq) ==
            [object_id |-> rq.target, opcode |-> rq.opcode, req |-> rq.req,
             new_id |-> rq.id, iface |-> rq.iface, destructor |-> rq.destructor,
             mapped |-> rq.iface,
             buffer |-> encode_message(RequestStruct(rq), rq.target, rq.opcode,
                                       request_buffer(RequestStruct(rq))).data,
             by |-> rq.by, seq |-> seq]
    IN  /\ display = 1
        /\ id_manager = [next |-> 4, free_list |-> <<>>]
        /\ interface_map = (1 :> "wl_display") @@ (2 :> "wl_registry") @@ (3 :> "wl_seat")
        /\ objects = EmptyMap
        /\ held = {[id |-> 2, iface |-> "wl_registry", by |-> 1, contended |-> FALSE,
                    serial |-> 1],
                   [id |-> 3, iface |-> "wl_seat", by |-> 1, contended |-> FALSE,
                    serial |-> 2]}
        /\ channel = <<Queued(rq1, 1), Queued(rq2, 2)>>
        /\ written = <<>>
        /\ incoming = <<>>
        /\ acked = {}
        /\ running = 0
        /\ tpc = [t \in Tasks |-> "idle"]
        /\ treq = [t \in Tasks |-> NoRequest]

\* The writer task: send_with_ancillary fails, `return Err(e)`.  The message
\* it had received from the channel is gone with it.
WriterSendFails ==
    /\ worker.state = "running"
    /\ channel # <<>>
    /\ channel' = Tail(channel)
    /\ worker' = [state |-> "failed", wrote |-> Len(written)]
    /\ UNCHANGED <<display, id_manager, interface_map, objects, held, written,
                   incoming, acked, running, tpc, treq, nev, taken, rlog, sent,
                   codecVars>>

\* The server sends an event; the stream delivers it whole, or its header
\* first and its body later.
ServerEvent ==
    \E e \in ServerEvents, arrived \in {"all", "header"} :
        /\ sent < MaxEvents
        /\ arrived = "header" => e.body # <<>>
        /\ sent' = sent + 1
        /\ incoming' = Append(incoming,
                              [object_id |-> e.object_id, opcode |-> e.opcode,
                               body |-> e.body, fds |-> e.fds, n |-> sent + 1,
                               arrived |-> arrived, part |-> "header"])
        /\ UNCHANGED <<display, id_manager, interface_map, objects, held, channel,
                       written, acked, running, tpc, treq, worker, nev, taken, rlog,
                       codecVars>>

\* The rest of a message arrives.
ServerBody ==
    \E j \in 1..Len(incoming) :
        /\ incoming[j].arrived = "header"
        /\ incoming' = [incoming EXCEPT ![j].arrived = "all"]
        /\ UNCHANGED <<display, id_manager, interface_map, objects, held, channel,
                       written, acked, running, tpc, treq, recvVars, codecVars>>

\* InterfaceStore::insert_interface with a proxy the application holds and the
\* version it bound.
Versions == 1..2

StoreInsertAt ==
    \E p \in held, v \in Versions :
        /\ objects' = insert_interface(objects, p, v)
        /\ held' = held \ {p}
        /\ UNCHANGED <<display, id_manager, interface_map, channel, written, incoming,
                       acked, running, tpc, treq, recvVars, codecVars>>

Idle == [pc |-> "idle", after_failure |-> FALSE, n |-> 0]

\* handle_event is called: next_event, wait_next_event, and the select! waits.
PollStart ==
    /\ nev.pc = "idle"
    /\ worker.state # "joined"
    /\ nev' = [Idle EXCEPT !.pc = "header", !.after_failure = worker.state = "failed"]
    /\ UNCHANGED <<connVars, worker, taken, rlog, sent, codecVars>>

\* handle_event from the body on: the body is received with no descriptor
\* slot, the interface is looked up, the message is decoded and, decoded,
\* handed to RawHandler::handle, which takes the object out of the store.
Deliver(ev) ==
    LET interface == MapGet(interface_map, ev.object_id)
        got == recv_with_ancillary(ev, 0)
        r == Coproduct_try_decode_body(coprod, interface, ev.opcode, got.body)
        entry == [NoEntry EXCEPT !.kind = "event", !.n = ev.n,
                                 !.object_id = ev.object_id, !.opcode = ev.opcode,
                                 !.interface = interface, !.fds_sent = ev.fds,
                                 !.fds = got.fds, !.after_failure = nev.after_failure,
                                 !.waited = nev.pc = "body"]
        tk == take(objects, r.of.name, ev.object_id)
        Return(res, tag) ==
            /\ rlog' = Append(rlog, [entry EXCEPT !.result = res, !.decode = tag])
            /\ nev' = [Idle EXCEPT !.pc = IF res = "panic" THEN "panicked" ELSE "idle"]
            /\ UNCHANGED <<objects, taken>>
    IN  /\ incoming' = Tail(incoming)
        /\ CASE interface = "none" -> Return("UnknownObjectId", "")
             [] interface # "none" /\ r.tag = "panic" -> Return("panic", r.tag)
             [] interface # "none" /\ r.tag \notin {"panic", "Ok"} -> Return("Ok", r.tag)
             [] OTHER ->
                  IF tk.some
                  THEN /\ objects' = tk.objects
                       /\ taken' = <<[obj |-> tk.obj, entry |-> [entry EXCEPT !.decode = "Ok"]]>>
                       /\ nev' = [nev EXCEPT !.pc = "handling", !.n = ev.n]
                       /\ UNCHANGED rlog
                  ELSE Return("Ok", "Ok")
        /\ UNCHANGED <<display, id_manager, interface_map, held, channel, written,
                       acked, running, tpc, treq, worker, sent, codecVars>>

\* select!: recv_header is ready.  With the whole message in the socket the
\* call runs on without suspending; otherwise it suspends at the receive of
\* the body.  After a cancelled call that had read a header, the bytes at the
\* front of the socket are that message's body.
PollHeader ==
    /\ nev.pc = "header"
    /\ incoming # <<>>
    /\ IF Head(incoming).part = "body"
       THEN /\ nev' = [nev EXCEPT !.pc = "desync"]
            /\ UNCHANGED <<connVars, worker, taken, rlog, sent, codecVars>>
       ELSE IF Head(incoming).arrived = "all"
            THEN Deliver(Head(incoming))
            ELSE /\ incoming' = [incoming EXCEPT ![1].part = "body"]
                 /\ nev' = [nev EXCEPT !.pc = "body", !.n = Head(incoming).n]
                 /\ UNCHANGED <<display, id_manager, interface_map, objects, held,
                                channel, written, acked, running, tpc, treq, worker,
                                taken, rlog, sent, codecVars>>

\* select!: the worker's join handle is ready; next_event returns
\* Err(WorkerTerminated).
PollWorker ==
    /\ nev.pc = "header"
    /\ worker.state = "failed"
    /\ worker' = [worker EXCEPT !.state = "joined"]
    /\ rlog' = Append(rlog, [NoEntry EXCEPT !.kind = "worker",
                                            !.result = "WorkerTerminated",
                                            !.after_failure = nev.after_failure])
    /\ nev' = Idle
    /\ UNCHANGED <<connVars, taken, sent, codecVars>>

\* The body has arrived and the suspended call goes on.
RecvBody ==
    /\ nev.pc = "body"
    /\ Head(incoming).arrived = "all"
    /\ Deliver(Head(incoming))

\* The application drops the handle_event future at one of its two awaits.
Cancel ==
    /\ nev.pc \in {"header", "body"}
    /\ nev' = Idle
    /\ UNCHANGED <<connVars, worker, taken, rlog, sent, codecVars>>

\* The user's Handler::handle returns and RawHandler::handle puts the object
\* back: `self.store_mut().insert_interface(obj, object_id)`.
HandlerReturn ==
    /\ nev.pc = "handling"
    /\ objects' = insert_interface(objects, taken[1].obj.proxy, taken[1].entry.object_id)
    /\ rlog' = Append(rlog, [taken[1].entry EXCEPT
                                !.result = "Ok", !.handled = TRUE,
                                !.before = taken[1].obj,
                                !.after = objects'[taken[1].entry.object_id]])
    /\ taken' = <<>>
    /\ nev' = Idle
    /\ UNCHANGED <<display, id_manager, interface_map, held, channel, written,
                   incoming, acked, running, tpc, treq, worker, sent, codecVars>>

NextRecv ==
    \/ WriterSend
    \/ WriterSendFails
    \/ ServerEvent
    \/ ServerBody
    \/ StoreInsertAt
    \/ StoreRemove
    \/ PollStart
    \/ PollHeader
    \/ PollWorker
    \/ RecvBody
    \/ Cancel
    \/ HandlerReturn

(***************************************************************************)
(* InterfaceStore over its BTreeMap<ObjectId, Object>.  The map is the     *)
(* sequence of its entries as its iterators yield them.                    *)
(***************************************************************************)
BTreeKeys(m) == {m[i].key : i \in 1..Len(m)}

BTreeGet(m, k) == m[CHOOSE i \in 1..Len(m) : m[i].key = k].val

\* A map that yields its entries in the order the keys were first inserted.
BTreeInsert_insertion_order(m, k, v) ==
    IF k \in BTreeKeys(m)
    THEN [i \in 1..Len(m) |-> IF m[i].key = k THEN [key |-> k, val |-> v] ELSE m[i]]
    ELSE Append(m, [key |-> k, val |-> v])

\* BTreeMap::insert: the value of a key already there is replaced, a new key
\* goes to its place in the (unsigned) order of the keys.
BTreeInsert(m, k, v) ==
    IF k \in BTreeKeys(m)
    THEN [i \in 1..Len(m) |-> IF m[i].key = k THEN [key |-> k, val |-> v] ELSE m[i]]
    ELSE LET n == Cardinality({i \in 1..Len(m) : LtU32(m[i].key, k)})
         IN  SubSeq(m, 1, n) \o <<[key |-> k, val |-> v]>> \o SubSeq(m, n + 1, Len(m))

\* BTreeMap::remove
BTreeRemove(m, k) == SelectSeq(m, LAMBDA e : e.key # k)

\* BTreeMap::values
BTreeValues(m) == [i \in 1..Len(m) |-> m[i].val]

\* struct Object
Object(version, interface, proxy) ==
    [version |-> version, interface |-> interface, proxy |-> proxy]

\* InterfaceStore::insert_interface::<I>(interface, version)
Store_insert_interface(m, I, proxy, version) ==
    BTreeInsert(m, proxy.id, Object(version, I, proxy))

\* InterfaceStore::insert_proxy, the objects part
Store_insert_proxy(m, interface, version, proxy) ==
    BTreeInsert(m, proxy.id, Object(version, interface, proxy))

\* InterfaceStore::remove
Store_remove(m, id) == BTreeRemove(m, id)

\* InterfaceStore::take::<I> that leaves a refused object out of the map.
Store_take_drops_refused(m, I, id) ==
    IF id \notin BTreeKeys(m) THEN [some |-> FALSE, objects |-> m]
    ELSE LET obj == BTreeGet(m, id) IN
         IF obj.interface # I \/ LtU32(obj.version, MAX_VERSION(I))
         THEN [some |-> FALSE, objects |-> BTreeRemove(m, id)]
         ELSE [some |-> TRUE, proxy |-> obj.proxy, objects |-> BTreeRemove(m, id)]

\* InterfaceStore::take::<I>: the object is removed, and put back when its
\* interface is not I or its version is below I::MAX_VERSION.
Store_take(m, I, id) ==
    IF id \notin BTreeKeys(m) THEN [some |-> FALSE, objects |-> m]
    ELSE LET obj == BTreeGet(m, id)
             removed == BTreeRemove(m, id)
         IN  IF obj.interface # I \/ LtU32(obj.version, MAX_VERSION(I))
             THEN [some |-> FALSE,
                   objects |-> BTreeInsert(removed, id,
                                           Object(obj.version, obj.interface, obj.proxy))]
             ELSE [some |-> TRUE, proxy |-> obj.proxy, objects |-> removed]

\* The test of InterfaceStore::get and get_all on one object.
Visible(obj, I) == ~(obj.interface # I \/ GtU32(obj.version, MAX_VERSION(I)))

\* InterfaceStore::get::<I>
Store_get(m, I, id) ==
    IF id \notin BTreeKeys(m) THEN [some |-> FALSE]
    ELSE IF Visible(BTreeGet(m, id), I)
         THEN [some |-> TRUE, proxy |-> BTreeGet(m, id).proxy]
         ELSE [some |-> FALSE]

\* InterfaceStore::get_all::<I>
Store_get_all(m, I) ==
    LET kept == SelectSeq(BTreeValues(m), LAMBDA obj : Visible(obj, I))
    IN  [i \in 1..Len(kept) |-> kept[i].proxy]

\* The objects the application stores: client ids and a server-allocated id
\* (0xff000000), of interfaces of version 1, at versions around it.
StoreIds == {1, 2, -16777216}
StoreInterfaces == {"wl_registry", "wl_callback"}
StoreVersions == 0..2
\* The ids of the raw proxies handed to insert_proxy.
RawProxyIds == {2, -16777216}

NoStoreCall == [op |-> "new", I |-> "", id |-> 0, res |-> <<>>, pre |-> <<>>]

InitStore ==
    /\ store = <<>>
    /\ sres = NoStoreCall

\* The map before the call is kept for take, whose effect on it is observed.
StoreCall(op, I, id, res) ==
    [op |-> op, I |-> I, id |-> id, res |-> res,
     pre |-> IF op = "take" THEN store ELSE <<>>]

StInsertInterface ==
    \E id \in StoreIds, I \in StoreInterfaces, v \in StoreVersions :
        /\ store' = Store_insert_interface(store, I, [id |-> id], v)
        /\ sres' = StoreCall("insert_interface", I, id, <<>>)
        /\ UNCHANGED <<idVars, connVars, decVars, wireVars, recvVars, fixedVars, pathVars, writerVars, inputVars, readVars, genVars>>

\* insert_proxy also records the interface name in the shared interface map.
StInsertProxy ==
    \E id \in RawProxyIds, I \in StoreInterfaces, v \in StoreVersions :
        /\ interface_map' = MapInsert(interface_map, id, I)
        /\ store' = Store_insert_proxy(store, I, v, [id |-> id])
        /\ sres' = StoreCall("insert_proxy", I, id, <<>>)
        /\ UNCHANGED <<display, id_manager, objects, held, channel, written, incoming,
                       acked, running, tpc, treq, idVars, decVars, wireVars, recvVars, fixedVars, pathVars, writerVars, inputVars, readVars, genVars>>

StRemove ==
    \E id \in StoreIds :
        /\ store' = Store_remove(store, id)
        /\ sres' = StoreCall("remove", "", id, <<>>)
        /\ UNCHANGED <<idVars, connVars, decVars, wireVars, recvVars, fixedVars, pathVars, writerVars, inputVars, readVars, genVars>>

StTake ==
    \E id \in StoreIds, I \in StoreInterfaces :
        LET r == Store_take(store, I, id) IN
        /\ store' = r.objects
        /\ sres' = StoreCall("take", I, id,
                             IF r.some THEN <<r.proxy>> ELSE <<>>)
        /\ UNCHANGED <<idVars, connVars, decVars, wireVars, recvVars, fixedVars, pathVars, writerVars, inputVars, readVars, genVars>>

StGet ==
    \E id \in StoreIds, I \in StoreInterfaces :
        LET r == Store_get(store, I, id) IN
        /\ sres' = StoreCall("get", I, id, IF r.some THEN <<r.proxy>> ELSE <<>>)
        /\ UNCHANGED <<store, idVars, connVars, decVars, wireVars, recvVars, fixedVars, pathVars, writerVars, inputVars, readVars, genVars>>

StGetAll ==
    \E I \in StoreInterfaces :
        /\ sres' = StoreCall("get_all", I, 0, Store_get_all(store, I))
        /\ UNCHANGED <<store, idVars, connVars, decVars, wireVars, recvVars, fixedVars, pathVars, writerVars, inputVars, readVars, genVars>>

NextStore ==
    StInsertInterface \/ StInsertProxy \/ StRemove \/ StTake \/ StGet \/ StGetAll

(***************************************************************************)
(* wire::fixed::Fixed, a 32 bit number with 8 fractional bits.             *)
(***************************************************************************)
MaxWhole == 20

\* The first whole number whose 256-fold does not fit an i32.
FixedLimit == 2 ^ 23

\* `x as i32` of a whole f64: saturating.  x is 256 * n.
Fixed_from(n) ==
    IF n >= FixedLimit THEN 2147483647
    ELSE IF n < -FixedLimit THEN (-2147483647) - 1
    ELSE n * 256

\* Rust's `/` on integers rounds toward zero.
TruncDiv(a, b) == IF a >= 0 \/ a % b = 0 THEN a \div b ELSE (a \div b) + 1

\* `v as iN` for N below 32: the low N bits, as a signed number.
AsSigned(v, bits) == ((v + 2 ^ (bits - 1)) % (2 ^ bits)) - 2 ^ (bits - 1)

SignedTypes == {"i8", "i16", "i32", "i64"}

\* impl From<Fixed> for i32 that goes through an i16.
Fixed_into_narrowed(to, raw) == AsSigned(TruncDiv(raw, 256), 16)

UnsignedTypes == {"u8", "u16"}

\* impl From<Fixed> for i8, i16, i32, i64 (i128 and isize are as i64), which
\* divide, and for u8 and u16, which shift (`>>` on an i32 is arithmetic) and
\* keep the low bits.
Fixed_into(to, raw) ==
    CASE to = "i8" -> AsSigned(TruncDiv(raw, 256), 8)
      [] to = "i16" -> AsSigned(TruncDiv(raw, 256), 16)
      [] to \in {"i32", "i64"} -> TruncDiv(raw, 256)
      [] to = "u8" -> (raw \div 256) % 256
      [] to = "u16" -> (raw \div 256) % 65536

\* The whole numbers converted: small ones, and those around the limit.
FixedInts ==
    (-MaxWhole..MaxWhole)
      \cup {s * (FixedLimit + d) : s \in {-1, 1}, d \in -2..2}
      \cup {s * (2 ^ k + d) : s \in {-1, 1}, k \in {7, 8, 15, 16}, d \in -1..1}

NoFixed == [phase |-> "none", n |-> 0, raw |-> 0, to |-> "", out |-> 0]

InitFixed == fx = NoFixed

InitFixedAny == fx \in {[NoFixed EXCEPT !.phase = "number", !.n = n] : n \in FixedInts}

\* Fixed::from(n)
FixedFrom ==
    /\ fx.phase = "number"
    /\ fx' = [fx EXCEPT !.phase = "fixed", !.raw = Fixed_from(fx.n)]
    /\ UNCHANGED <<idVars, connVars, decVars, wireVars, recvVars, storeVars, pathVars, writerVars, inputVars, readVars, genVars>>

\* fix.into()
FixedInto ==
    \E to \in SignedTypes :
        /\ fx.phase = "fixed"
        /\ fx' = [fx EXCEPT !.phase = "int", !.to = to, !.out = Fixed_into(to, fx.raw)]
        /\ UNCHANGED <<idVars, connVars, decVars, wireVars, recvVars, storeVars, pathVars, writerVars, inputVars, readVars, genVars>>

NextFixed == FixedFrom \/ FixedInto

\* Fixed values with a fraction, as Fixed::from makes of a float and as the
\* wire delivers: whole part up to MaxRawWhole, either sign.
MaxRawWhole == 3

FixedRaws ==
    {sign * (256 * w + f) : sign \in {-1, 1}, w \in 0..MaxRawWhole, f \in {0, 1, 128, 255}}

InitFixedRaw == fx \in {[NoFixed EXCEPT !.phase = "fixed", !.raw = r] : r \in FixedRaws}

\* fix.into() for any integer type
FixedIntoAny ==
    \E to \in SignedTypes \cup UnsignedTypes :
        /\ fx.phase = "fixed"
        /\ fx' = [fx EXCEPT !.phase = "int", !.to = to, !.out = Fixed_into(to, fx.raw)]
        /\ UNCHANGED <<idVars, connVars, decVars, wireVars, recvVars, storeVars, pathVars,
                       writerVars, inputVars, readVars, genVars>>

(***************************************************************************)
(* Connection::new: the socket path.  A path is whether it starts at the   *)
(* root and its components; an environment variable is unset, or set to    *)
(* bytes that are or are not Unicode.                                      *)
(***************************************************************************)
Path(abs, parts) == [abs |-> abs, parts |-> parts]

Unset == [set |-> FALSE, unicode |-> FALSE, value |-> Path(FALSE, <<>>)]

SetTo(value, unicode) == [set |-> TRUE, unicode |-> unicode, value |-> value]

\* std::env::var: Err(NotPresent), Err(NotUnicode) or Ok(value)
env_var(v) ==
    IF ~v.set THEN [ok |-> FALSE, err |-> "NotPresent", value |-> Path(FALSE, <<>>)]
    ELSE IF ~v.unicode THEN [ok |-> FALSE, err |-> "NotUnicode", value |-> Path(FALSE, <<>>)]
    ELSE [ok |-> TRUE, err |-> "", value |-> v.value]

\* env::var(..).unwrap_or(default)
unwrap_or(r, default) == IF r.ok THEN r.value ELSE default

is_absolute(p) == p.abs

\* PathBuf::join: an absolute argument replaces the path
join(base, p) ==
    IF is_absolute(p) THEN p ELSE Path(base.abs, base.parts \o p.parts)

\* Connection::new up to the path handed to UnixStream::connect
Connection_path(WAYLAND_DISPLAY, XDG_RUNTIME_DIR) ==
    LET wayland_display == unwrap_or(env_var(WAYLAND_DISPLAY), Path(FALSE, <<"wayland-0">>))
        xdg_runtime_dir == env_var(XDG_RUNTIME_DIR)
    IN  IF ~is_absolute(wayland_display)
        THEN IF ~xdg_runtime_dir.ok
             THEN [ok |-> FALSE, err |-> "NoXdgRuntimeDir", path |-> Path(FALSE, <<>>)]
             ELSE [ok |-> TRUE, err |-> "", path |-> join(xdg_runtime_dir.value, wayland_display)]
        ELSE [ok |-> TRUE, err |-> "", path |-> wayland_display]

\* The values WAYLAND_DISPLAY and XDG_RUNTIME_DIR take here.
DisplayPaths ==
    {Path(FALSE, <<"wayland-1">>), Path(FALSE, <<>>), Path(FALSE, <<"seat", "wayland-1">>),
     Path(TRUE, <<"tmp", "wl">>)}

RuntimeDirs == {Path(TRUE, <<"run", "user", "1000">>), Path(FALSE, <<"run">>)}

EnvValues(paths) == {Unset} \cup {SetTo(p, u) : p \in paths, u \in BOOLEAN}

NoConnection ==
    [phase |-> "none", WAYLAND_DISPLAY |-> Unset, XDG_RUNTIME_DIR |-> Unset,
     path |-> Path(FALSE, <<>>), err |-> ""]

InitPath == cn = NoConnection

InitPathAny ==
    cn \in {[NoConnection EXCEPT !.phase = "env", !.WAYLAND_DISPLAY = d, !.XDG_RUNTIME_DIR = x] :
               d \in EnvValues(DisplayPaths), x \in EnvValues(RuntimeDirs)}

notPathVars == <<idVars, connVars, decVars, wireVars, recvVars, storeVars, fixedVars, writerVars, inputVars, readVars, genVars>>

\* Connection::new, lines 40-47
ResolvePath ==
    /\ cn.phase = "env"
    /\ LET r == Connection_path(cn.WAYLAND_DISPLAY, cn.XDG_RUNTIME_DIR)
       IN  cn' = [cn EXCEPT !.phase = IF r.ok THEN "path" ELSE "failed",
                            !.path = r.path, !.err = r.err]
    /\ UNCHANGED notPathVars

\* UnixStream::connect(wayland_display)
ConnectStream ==
    \E connected \in BOOLEAN :
        /\ cn.phase = "path"
        /\ cn' = [cn EXCEPT !.phase = IF connected THEN "stream" ELSE "failed",
                            !.err = IF connected THEN "" ELSE "ConnectError"]
        /\ UNCHANGED notPathVars

\* stream.try_clone(), then the two sockets, the channel and the writer task
CloneStream ==
    \E cloned \in BOOLEAN :
        /\ cn.phase = "stream"
        /\ cn' = [cn EXCEPT !.phase = IF cloned THEN "connection" ELSE "failed",
                            !.err = IF cloned THEN "" ELSE "CloneError"]
        /\ UNCHANGED notPathVars

NextPath == ResolvePath \/ ConnectStream \/ CloneStream

(***************************************************************************)
(* The writer task of Connection::new, with the unbounded request channel  *)
(* it reads, the senders that keep the channel open (the connection's own  *)
(* and the clones request_sender() hands to proxies) and the cancellation  *)
(* token that Connection's Drop trips.                                     *)
(***************************************************************************)
MaxSenders == 2
MaxInterrupts == 1

\* proxy::RequestMessage { fds, buffer }
RequestMsg(buffer, fds) == [buffer |-> buffer, fds |-> fds]

RequestMessages ==
    {RequestMsg(<<1>>, <<>>), RequestMsg(<<2>>, <<7>>), RequestMsg(<<3>>, <<7, 8>>)}

\* AncillaryMessageWriter::add_fds into the 128 byte buffer: one control
\* message header of 16 bytes and 4 bytes for each descriptor
add_fds(fds) == 16 + 4 * Len(fds) <= 128

\* one sendmsg that gives the buffer to one call and the descriptors to another
send_vectored_with_ancillary_apart(socket, buffer, fds) ==
    socket \o <<[bytes |-> buffer, fds |-> <<>>], [bytes |-> <<>>, fds |-> fds]>>

\* one successful send_vectored_with_ancillary(&[buffer], &mut ancillary)
send_vectored_with_ancillary(socket, buffer, fds) ==
    Append(socket, [bytes |-> buffer, fds |-> fds])

NoMessage == RequestMsg(<<>>, <<>>)

InitWriter ==
    wt = [state |-> "select", token |-> FALSE, connection |-> TRUE, senders |-> 1,
          channel |-> <<>>, queued |-> 0, msg |-> NoMessage, interrupts |-> 0,
          received |-> <<>>, socket |-> <<>>, exit |-> "", result |-> "",
          owed |-> 0]

notWriterVars == <<idVars, connVars, decVars, wireVars, recvVars, storeVars, fixedVars, pathVars, inputVars, readVars, genVars>>

\* Connection::request_sender: one more sender, held by a proxy
RequestSender ==
    /\ wt.connection /\ wt.senders < MaxSenders
    /\ wt' = [wt EXCEPT !.senders = @ + 1]
    /\ UNCHANGED notWriterVars

\* a proxy and its sender are dropped
DropProxySender ==
    /\ wt.senders > (IF wt.connection THEN 1 ELSE 0)
    /\ wt' = [wt EXCEPT !.senders = @ - 1]
    /\ UNCHANGED notWriterVars

\* Proxy::send_request: UnboundedSender::send, which fails once the receiver is gone
SendRequest ==
    \E m \in RequestMessages :
        /\ wt.senders > 0 /\ wt.queued < MaxRequests
        /\ wt' = [wt EXCEPT !.queued = @ + 1,
                            !.channel = IF wt.state = "exited" THEN @ ELSE Append(@, m)]
        /\ UNCHANGED notWriterVars

\* impl Drop for Connection: the token is cancelled, then the fields are dropped
DropConnection ==
    /\ wt.connection
    /\ wt' = [wt EXCEPT !.connection = FALSE, !.token = TRUE, !.senders = @ - 1,
                        !.owed = Len(wt.received) + Len(wt.channel)]
    /\ UNCHANGED notWriterVars

\* select!: request_receiver.recv() is ready with Some(msg)
WriterRecv ==
    /\ wt.state = "select" /\ wt.channel # <<>>
    /\ wt' = [wt EXCEPT !.state = "send", !.msg = Head(wt.channel), !.channel = Tail(@),
                        !.interrupts = 0, !.received = Append(@, Head(wt.channel))]
    /\ UNCHANGED notWriterVars

\* send_with_ancillary: the send fails with ErrorKind::Interrupted and is retried
WriterInterrupted ==
    /\ wt.state = "send" /\ add_fds(wt.msg.fds) /\ wt.interrupts < MaxInterrupts
    /\ wt' = [wt EXCEPT !.interrupts = @ + 1]
    /\ UNCHANGED notWriterVars

\* send_with_ancillary returns Ok(()): back to the top of the loop
WriterSent ==
    /\ wt.state = "send" /\ add_fds(wt.msg.fds)
    /\ wt' = [wt EXCEPT !.state = "select", !.msg = NoMessage,
                        !.socket = send_vectored_with_ancillary(@, wt.msg.buffer, wt.msg.fds)]
    /\ UNCHANGED notWriterVars

\* send_with_ancillary returns Err(e): return Err(e)
WriterSendError ==
    /\ wt.state = "send"
    /\ wt' = [wt EXCEPT !.state = "exited", !.msg = NoMessage, !.exit = "error",
                        !.result = "Err", !.channel = <<>>]
    /\ UNCHANGED notWriterVars

\* select!: worker_token.cancelled() is ready: break, Ok(())
WriterCancelled ==
    /\ wt.state = "select" /\ wt.token
    /\ wt' = [wt EXCEPT !.state = "exited", !.exit = "cancelled", !.result = "Ok",
                        !.channel = <<>>]
    /\ UNCHANGED notWriterVars

\* select!: recv() is ready with None, every sender dropped and nothing queued
WriterClosed ==
    /\ wt.state = "select" /\ wt.senders = 0 /\ wt.channel = <<>>
    /\ wt' = [wt EXCEPT !.state = "exited", !.exit = "closed", !.result = "Ok"]
    /\ UNCHANGED notWriterVars

NextWriter ==
    \/ RequestSender \/ DropProxySender \/ SendRequest \/ DropConnection
    \/ WriterRecv \/ WriterInterrupted \/ WriterSent \/ WriterSendError
    \/ WriterCancelled \/ WriterClosed

(***************************************************************************)
(* Byte slices handed to Decode::decode: every slice of up to MaxBytes     *)
(* bytes over a few byte values, among them NUL, small lengths, an ASCII   *)
(* letter and 0xff.                                                        *)
(***************************************************************************)
MaxBytes == 7

ByteValues == {0, 1, 2, 65, 255}

ByteSlices == UNION {[1..k -> ByteValues] : k \in 0..MaxBytes}

NoBytes ==
    [phase |-> "none", data |-> <<>>, t |-> "", res |-> DecodeErr(""),
     interface |-> "", opcode |-> 0, ev |-> DecodeError]

InitInput == input = NoBytes

InitInputAny == input \in {[NoBytes EXCEPT !.phase = "bytes", !.data = b] : b \in ByteSlices}

\* String::decode(data)
DecodeString ==
    /\ input.phase = "bytes"
    /\ input' = [input EXCEPT !.phase = "decoded", !.t = "string", !.res = decode("string", input.data)]
    /\ UNCHANGED <<idVars, connVars, decVars, wireVars, recvVars, storeVars, fixedVars,
                   pathVars, writerVars, readVars, genVars>>

\* An event type with a string for its only argument, as wl_seat has:
\* capabilities(uint), name(string).
WlSeatEvent == [name |-> "wl_seat", events |-> << <<"u32">>, <<"string">> >>]

MaxBody == 5
MaxOpcode == 2

EventBodies == UNION {[1..k -> ByteValues] : k \in 0..MaxBody}

InitInputBody ==
    input \in {[NoBytes EXCEPT !.phase = "body", !.data = b] : b \in EventBodies}

\* <Interface>Event::try_decode(interface, opcode, data)
TryDecodeBody ==
    \E ty \in {WlSeatEvent, WlRegistryEvent}, interface \in {"wl_seat", "wl_registry"},
       opcode \in 0..MaxOpcode :
        /\ input.phase = "body"
        /\ input' = [input EXCEPT !.phase = "tried", !.t = ty.name,
                                  !.interface = interface, !.opcode = opcode,
                                  !.ev = Event_try_decode_body(ty, interface, opcode, input.data)]
        /\ UNCHANGED <<idVars, connVars, decVars, wireVars, recvVars, storeVars, fixedVars,
                       pathVars, writerVars, readVars, genVars>>

(***************************************************************************)
(* DisplayConnection::next_event over the bytes of the socket.  The socket *)
(* is the UnixStream of Connection::new: a receive returns the bytes that  *)
(* are there, up to the length of the buffer, and 0 once the peer has      *)
(* closed and nothing is left.                                             *)
(***************************************************************************)
MaxChunk == 12

\* An event with a four byte body and one with none, as the server encodes them.
ServerStreams ==
    { LeBytes(2, 4) \o LeBytes(1, 2) \o LeBytes(12, 2) \o LeBytes(5, 4),
      LeBytes(1, 4) \o LeBytes(1, 2) \o LeBytes(8, 2) }

\* `self.0.recv(&mut buf)` on a buffer of len zeroed bytes: the bytes taken
\* from the socket, how many they are, and the buffer afterwards.
recv(sock, len) ==
    LET n == IF Len(sock) < len THEN Len(sock) ELSE len
    IN  [n |-> n, buf |-> Put(Zeros(len), SubSeq(sock, 1, n)),
         rest |-> SubSeq(sock, n + 1, Len(sock))]

\* RecvSocket::recv_header with a receive that succeeds: the count is dropped
\* and the buffer is decoded.
recv_header(sock) == MessageHeader_decode(recv(sock, 8).buf)

NoRead ==
    [pc |-> "idle", closed_before |-> FALSE, hn |-> -1, hres |-> "", size |-> 0,
     bn |-> -1, head |-> MessageHeader(0, 0, 0), body |-> <<>>, result |-> ""]

InitRead ==
    rd = [pending |-> <<>>, sock |-> <<>>, closed |-> FALSE, worker |-> "running",
          call |-> NoRead]

InitReadAny ==
    rd \in {[pending |-> b, sock |-> <<>>, closed |-> FALSE, worker |-> "running",
             call |-> NoRead] : b \in ServerStreams}

notReadVars ==
    <<idVars, connVars, decVars, wireVars, recvVars, storeVars, fixedVars, pathVars,
      writerVars, inputVars, genVars>>

\* Some of the server's bytes reach the socket.
ServerSends ==
    \E k \in 1..MaxChunk :
        /\ ~rd.closed /\ k <= Len(rd.pending)
        /\ rd' = [rd EXCEPT !.sock = @ \o SubSeq(rd.pending, 1, k),
                            !.pending = SubSeq(@, k + 1, Len(@))]
        /\ UNCHANGED notReadVars

\* The peer closes the connection.
PeerCloses ==
    /\ ~rd.closed
    /\ rd' = [rd EXCEPT !.closed = TRUE, !.pending = <<>>]
    /\ UNCHANGED notReadVars

\* The writer task's send fails on the closed connection: `return Err(e)`.
WriterBreaks ==
    /\ rd.closed /\ rd.worker = "running"
    /\ rd' = [rd EXCEPT !.worker = "failed"]
    /\ UNCHANGED notReadVars

\* next_event is called: wait_next_event's select! waits.
NextEventCalled ==
    /\ rd.call.pc \in {"idle", "returned"}
    /\ rd' = [rd EXCEPT !.call = [NoRead EXCEPT !.pc = "header",
                                               !.closed_before = rd.closed /\ rd.sock = <<>>]]
    /\ UNCHANGED notReadVars

\* select!: recv_header is ready.  `head.unwrap()`, then
\* `head.size as usize - 8` and `vec![0u8; size]`: with a size below 8 the
\* subtraction overflows (a debug build panics there, a release build wraps
\* and panics in the allocation).
ReadHeader ==
    /\ rd.call.pc = "header"
    /\ rd.sock # <<>> \/ rd.closed
    /\ LET r == recv(rd.sock, 8)
           h == recv_header(rd.sock)
       IN  rd' = [rd EXCEPT
                    !.sock = r.rest,
                    !.call = [@ EXCEPT !.hn = r.n,
                                       !.hres = IF h.ok THEN "Ok" ELSE "Err",
                                       !.head = h.val,
                                       !.pc = IF h.val.size < 8 THEN "panicked" ELSE "body",
                                       !.size = IF h.val.size < 8 THEN 0 ELSE h.val.size - 8,
                                       !.result = IF h.val.size < 8 THEN "panic" ELSE ""]]
    /\ UNCHANGED notReadVars

\* select!: recv_header is ready with an IoError: `head.unwrap()` panics.
ReadHeaderFails ==
    /\ rd.call.pc = "header"
    /\ rd.closed
    /\ rd' = [rd EXCEPT !.call = [@ EXCEPT !.hres = "Err", !.pc = "panicked",
                                           !.result = "panic"]]
    /\ UNCHANGED notReadVars

\* recv_with_ancillary(&mut buf, &mut []) returns Ok(bytes_read), which
\* next_event drops: Ok(Event { interface, header, body: buf }).
ReadBody ==
    /\ rd.call.pc = "body"
    /\ rd.sock # <<>> \/ rd.closed \/ rd.call.size = 0
    /\ LET r == recv(rd.sock, rd.call.size)
       IN  rd' = [rd EXCEPT !.sock = r.rest,
                            !.call = [@ EXCEPT !.bn = r.n, !.body = r.buf,
                                               !.pc = "returned", !.result = "Ok"]]
    /\ UNCHANGED notReadVars

\* select!: the worker's join handle is ready: Err(WorkerTerminated).
ReadWorkerTerminated ==
    /\ rd.call.pc = "header"
    /\ rd.worker = "failed"
    /\ rd' = [rd EXCEPT !.worker = "joined",
                        !.call = [@ EXCEPT !.pc = "returned", !.result = "WorkerTerminated"]]
    /\ UNCHANGED notReadVars

NextRead ==
    \/ ServerSends \/ PeerCloses \/ WriterBreaks \/ NextEventCalled
    \/ ReadHeader \/ ReadHeaderFails \/ ReadBody \/ ReadWorkerTerminated

(***************************************************************************)
(* The generator: build_message decides from a message's arguments whether *)
(* to emit an impl of CompileTimeMessageSize and with which SIZE.          *)
(***************************************************************************)

\* Longest argument list drawn for a message.
MaxArgs == 2

\* An argument of the protocol description: its type and whether it names
\* an interface (only new_id and object arguments do).
Arg(type_, interface) == [type_ |-> type_, interface |-> interface]

Args ==
    {Arg(t, FALSE) : t \in {"uint", "int", "fixed", "object", "new_id", "string", "array", "fd"}}
        \cup {Arg(t, TRUE) : t \in {"object", "new_id"}}

Messages == UNION {[1..n -> Args] : n \in 0..MaxArgs}

\* helpers.rs: no string, no array, no new_id without an interface.
is_size_known_at_compile_time(args) ==
    ~\E i \in 1..Len(args) :
        \/ args[i].type_ = "string"
        \/ args[i].type_ = "array"
        \/ (args[i].type_ = "new_id" /\ ~args[i].interface)

\* The Rust type arg_type_to_rust_type names for an argument type.
arg_type_to_rust_type(type_) ==
    CASE type_ \in {"uint", "object", "new_id"} -> "u32"
      [] type_ = "int" -> "i32"
      [] type_ = "fixed" -> "Fixed"
      [] type_ = "string" -> "String"
      [] type_ = "array" -> "Array"
      [] type_ = "fd" -> "()"

\* The types of denali-core that implement CompileTimeMessageSize, and their
\* SIZE: 4 for u32 and i32, size_of::<Self>() for Fixed and ().
HasSIZE(ty) == ty \in {"u32", "i32", "Fixed", "()"}
TypeSIZE(ty) == IF ty = "()" THEN 0 ELSE 4

RECURSIVE SumSIZE(_)
SumSIZE(tys) == IF tys = <<>> THEN 0 ELSE TypeSIZE(Head(tys)) + SumSIZE(Tail(tys))

\* The arguments build_message sizes: all but the file descriptors.
args_with_size(args) == SelectSeq(args, LAMBDA a : a.type_ # "fd")

\* build_message's compile_time_size: nothing when the size is known, and
\* otherwise an impl whose SIZE is the sum of the argument types' SIZE.
compile_time_size(args) ==
    LET sized == args_with_size(args)
        tys == [i \in 1..Len(sized) |-> arg_type_to_rust_type(sized[i].type_)]
    IN  IF is_size_known_at_compile_time(sized)
        THEN [impl |-> FALSE, compiles |-> TRUE, SIZE |-> 0]
        ELSE [impl |-> TRUE,
              compiles |-> \A i \in 1..Len(tys) : HasSIZE(tys[i]),
              SIZE |-> SumSIZE(tys)]

\* What the generated MessageSize::size returns for a message whose
\* arguments are all of fixed width: the sum of each field's size().
RECURSIVE FixedWidthSize(_)
FixedWidthSize(args) ==
    IF args = <<>> THEN 0
    ELSE (IF Head(args).type_ = "fd" THEN 0 ELSE 4) + FixedWidthSize(Tail(args))

NoMessageBuilt == [phase |-> "source", args |-> <<>>, out |-> [impl |-> FALSE, compiles |-> TRUE, SIZE |-> 0]]

InitGen == gen = NoMessageBuilt
InitGenAny == \E args \in Messages : gen = [NoMessageBuilt EXCEPT !.args = args]

notGenVars ==
    <<idVars, connVars, decVars, wireVars, recvVars, storeVars, fixedVars, pathVars,
      writerVars, inputVars, readVars>>

BuildMessage ==
    /\ gen.phase = "source"
    /\ gen' = [gen EXCEPT !.phase = "built", !.out = compile_time_size(gen.args)]
    /\ UNCHANGED notGenVars

\* Until a connection exists the writer runs and no event was sent or read.
InitRecv ==
    /\ worker = [state |-> "running", wrote |-> 0]
    /\ nev = Idle
    /\ taken = <<>>
    /\ rlog = <<>>
    /\ sent = 0

Init == InitId /\ InitConn /\ InitDec /\ InitWire /\ InitRecv /\ InitStore /\ InitFixed /\ InitPath /\ InitWriter /\ InitInput /\ InitRead /\ InitGen

\* The id manager under valid use.
Spec == Init /\ [][NextId]_vars

\* Everything freshly constructed.
InitMisuse == Init /\ low = 0

\* The id manager with recycle_id given arbitrary ids, from a fresh manager.

SpecMisuse == InitMisuse /\ [][NextMisuse]_vars

\* One display connection with its tasks, writer and server.
SpecConn == InitMisuse /\ [][NextConn]_vars

\* A connection through which all client ids but the last NearMax have been
\* handed out (the objects dropped, their requests long written): only the
\* display is tracked of what came before.
InitConnNearMax ==
    /\ display = 1
    /\ id_manager = [IdManagerInner_new EXCEPT !.next = CLIENT_MAX_ID - NearMax + 1]
    /\ interface_map = MapInsert(EmptyMap, 1, "wl_display")
    /\ objects = EmptyMap
    /\ held = {}
    /\ channel = <<>>
    /\ written = <<>>
    /\ incoming = <<>>
    /\ acked = {}
    /\ running = 0
    /\ tpc = [t \in Tasks |-> "idle"]
    /\ treq = [t \in Tasks |-> NoRequest]

InitExhaust ==
    InitId /\ low = 0 /\ InitConnNearMax /\ InitDec /\ InitWire /\ InitRecv /\ InitStore /\ InitFixed /\ InitPath /\ InitWriter /\ InitInput /\ InitRead /\ InitGen

NextExhaust ==
    \/ \E t \in Tasks : Wake(t)
    \/ \E t \in Tasks : Begin(t)
    \/ \E t \in Tasks : Peek(t)
    \/ \E t \in Tasks : Insert(t)
    \/ \E t \in Tasks : Alloc(t)
    \/ \E t \in Tasks : Enqueue(t)
    \/ WriterSend

\* Requests issued while the last client ids run out.
SpecExhaust == InitExhaust /\ [][NextExhaust]_vars

\* try_decode over every coproduct of up to MaxMembers event types.
InitDecode ==
    InitId /\ low = 0 /\ InitConn /\ InitDecAny /\ InitWire /\ InitRecv /\ InitStore /\ InitFixed /\ InitPath /\ InitWriter /\ InitInput /\ InitRead /\ InitGen

SpecDecode == InitDecode /\ [][NextDec]_vars

\* The codec on every sequence of up to MaxFields wire values.
InitCodec ==
    InitId /\ low = 0 /\ InitConn /\ InitDec /\ InitWireAny /\ InitRecv /\ InitStore /\ InitFixed /\ InitPath /\ InitWriter /\ InitInput /\ InitRead /\ InitGen

SpecWire == InitCodec /\ [][NextWire]_vars

\* One whole number converted to Fixed and back.
InitConvert ==
    InitId /\ low = 0 /\ InitConn /\ InitDec /\ InitWire /\ InitRecv /\ InitStore
      /\ InitFixedAny /\ InitPath /\ InitWriter /\ InitInput /\ InitRead /\ InitGen

SpecFixed == InitConvert /\ [][NextFixed]_vars

\* A store driven on its own, from an empty one.
SpecStore == InitMisuse /\ [][NextStore]_vars

\* The read side, from a connection with two requests queued.
InitReceive ==
    /\ InitId /\ low = 0
    /\ InitConnSeat
    /\ coprod = <<WlRegistryEvent, WlDisplayEvent>> /\ dec = NoDecode
    /\ InitWire /\ InitRecv /\ InitStore /\ InitFixed /\ InitPath /\ InitWriter /\ InitInput /\ InitRead /\ InitGen

SpecRecv == InitReceive /\ [][NextRecv]_vars

(***************************************************************************)
(* C1: under valid use (recycle_id only given outstanding ids), alloc_id   *)
(* never returns an id that is still outstanding.                          *)
(***************************************************************************)
C1_AllocNeverOutstanding ==
    (last.op = "alloc" /\ last.res.tag = "Ok") => ~last.dup

\* An id is handed out again from the free list while others are still held.
C1_Witness ==
    /\ last.op = "alloc" /\ last.res.tag = "Ok"
    /\ last.pre.free_list # <<>>
    /\ last.res.val = HeapPeek(last.pre.free_list)
    /\ Cardinality(out) >= 2

(***************************************************************************)
(* C2: under valid use alloc_id returns the smallest client id that is not *)
(* outstanding: the free-list minimum when it is below next (next stays),  *)
(* otherwise next, which is then incremented.                              *)
(***************************************************************************)
C2_AllocSmallestFree ==
    (last.op = "alloc" /\ last.res.tag = "Ok") =>
        /\ last.res.val = last.smallest
        /\ IF last.pre.free_list # <<>> /\ LtU32(last.pre.free_list[1], last.pre.next)
           THEN /\ last.res.val = last.pre.free_list[1]
                /\ mgr.next = last.pre.next
                /\ mgr.free_list = Tail(last.pre.free_list)
           ELSE /\ last.res.val = last.pre.next
                /\ mgr.next = IncU32(last.pre.next)
                /\ mgr.free_list = last.pre.free_list

\* A recycled id below next is reused although next is also available.
C2_Witness ==
    /\ last.op = "alloc" /\ last.res.tag = "Ok"
    /\ last.pre.free_list # <<>>
    /\ LtU32(last.res.val, DecU32(last.pre.next))
    /\ LeU32(last.pre.next, CLIENT_MAX_ID)

(***************************************************************************)
(* C4: peek_next_id leaves next and the free list unchanged, repeated      *)
(* peeks agree, and the alloc_id that follows a peek returns exactly what  *)
(* the peek returned, the OutOfClientIds error included.                   *)
(***************************************************************************)
C4_PeekMatchesAlloc ==
    /\ last.op = "peek" => mgr = last.pre
    /\ (last.op = "peek" /\ last.prev.op = "peek") => last.res = last.prev.res
    /\ (last.op = "alloc" /\ last.prev.op = "peek") => last.res = last.prev.res

\* alloc_id after a peek, with a recycled id below next waiting in the heap.
C4_Witness ==
    /\ last.op = "alloc" /\ last.prev.op = "peek"
    /\ last.res.tag = "Ok"
    /\ last.pre.free_list # <<>>
    /\ last.res.val # last.pre.next

\* alloc_id after a peek, both failing.
C4_WitnessErr ==
    /\ last.op = "alloc" /\ last.prev.op = "peek"
    /\ last.res.tag = "OutOfClientIds"

(***************************************************************************)
(* C5: alloc_id fails with OutOfClientIds(next) exactly when               *)
(* next > CLIENT_MAX_ID and the free list is empty, changes nothing then,  *)
(* and succeeds again once an outstanding id has been recycled.            *)
(***************************************************************************)
C5_OutOfClientIds ==
    last.op = "alloc" =>
        /\ (last.res.tag = "OutOfClientIds") <=>
               (GtU32(last.pre.next, CLIENT_MAX_ID) /\ last.pre.free_list = <<>>)
        /\ last.res.tag = "OutOfClientIds" =>
               (last.res.val = last.pre.next /\ mgr = last.pre)
        /\ last.failBefore = 2 => last.res.tag = "Ok"

\* alloc_id failed, an outstanding id was recycled, and alloc_id succeeded.
C5_Witness ==
    /\ last.op = "alloc" /\ last.failBefore = 2 /\ last.res.tag = "Ok"

\* alloc_id fails and leaves the manager as it was.
C5_WitnessFail ==
    /\ last.op = "alloc" /\ last.res.tag = "OutOfClientIds"
    /\ last.res.val = IncU32(CLIENT_MAX_ID)

(***************************************************************************)
(* C3: every id alloc_id returns lies in [CLIENT_MIN_ID, CLIENT_MAX_ID],   *)
(* for all sequences of alloc_id and recycle_id calls on a fresh manager.  *)
(***************************************************************************)
C3_AllocInClientRange ==
    (last.op = "alloc" /\ last.res.tag = "Ok") =>
        (LeU32(CLIENT_MIN_ID, last.res.val) /\ LeU32(last.res.val, CLIENT_MAX_ID))

(***************************************************************************)
(* C6: when a request that creates an object is put on the write channel,  *)
(* the interface map already maps the new id it carries to the interface   *)
(* name; a constructed connection has the display at id 1 mapped to        *)
(* wl_display, and a first get_registry request carries id 2, mapped to    *)
(* wl_registry before it is enqueued.                                      *)
(***************************************************************************)
Enqueued == written \o channel

C6_RegisteredBeforeEnqueue ==
    /\ display # 0 => (display = 1 /\ MapGet(interface_map, 1) = "wl_display")
    /\ \A i \in 1..Len(Enqueued) :
          Enqueued[i].iface # "" =>
              (Enqueued[i].new_id # 0 /\ Enqueued[i].mapped = Enqueued[i].iface)
    /\ \A t \in Tasks :
          (tpc[t] = "enqueue" /\ treq[t].iface # "") =>
              MapGet(interface_map, treq[t].id) = treq[t].iface
    /\ (Len(Enqueued) >= 1 /\ Enqueued[1].req = "get_registry") =>
          (Enqueued[1].new_id = 2 /\ Enqueued[1].mapped = "wl_registry")

\* get_registry first, then a bind with a dynamically typed new id.
C6_Witness ==
    /\ Len(Enqueued) >= 2
    /\ Enqueued[1].req = "get_registry"
    /\ Enqueued[2].req = "bind" /\ Enqueued[2].iface = "wl_seat"
    /\ Enqueued[2].new_id = 3

(***************************************************************************)
(* C7: when two tasks issue object-creating requests through proxies that  *)
(* share one IdManager and one interface map, every created object has an  *)
(* id of its own and the interface map maps that id to the object's own    *)
(* interface name.                                                         *)
(***************************************************************************)
\* The objects created so far: held, stored, or allocated by a request that
\* has not returned yet.
Created ==
    held \cup {objects[k].proxy : k \in DOMAIN objects}
         \cup {[id |-> treq[t].id, iface |-> treq[t].iface, by |-> t,
                contended |-> treq[t].contended, serial |-> 0] :
               t \in {u \in Tasks : tpc[u] = "enqueue" /\ treq[u].iface # ""}}

C7_DistinctIdsOwnInterface ==
    \A p \in Created :
        /\ MapGet(interface_map, p.id) = p.iface
        /\ p.id # display
        /\ \A q \in Created : p.id = q.id => p = q

\* Two tasks have each created an object, one of them while the other task
\* was waiting to issue its request.
C7_Witness ==
    \E p \in Created, q \in Created :
        /\ p.by # 0 /\ q.by # 0 /\ p.by # q.by
        /\ q.contended

(***************************************************************************)
(* C8: once a destructor request for X has been sent and the client has    *)
(* processed the server's delete_id event for X, X is recycled in the      *)
(* IdManager and absent from the interface map and from the object store.  *)
(***************************************************************************)
C8_DeleteIdReleases ==
    \A x \in acked :
        /\ x \notin DOMAIN interface_map
        /\ x \notin DOMAIN objects
        /\ x \in HeapIds(id_manager.free_list) \/ LeU32(id_manager.next, x)

(***************************************************************************)
(* C9: a coproduct's try_decode returns UnknownInterface exactly when no   *)
(* member has the given interface name; otherwise the result is that of    *)
(* the left-most member with that name.                                    *)
(***************************************************************************)
Matching == {i \in 1..Len(coprod) : coprod[i].name = dec.interface}
FirstMatch == CHOOSE k \in Matching : \A j \in Matching : k <= j
FirstResult == Event_try_decode(coprod[FirstMatch], dec.interface, dec.opcode, dec.len)

C9_FirstMatchingMember ==
    dec.called =>
        /\ (dec.res.tag = "UnknownInterface") <=> (Matching = {})
        /\ Matching # {} =>
              IF FirstResult.tag = "Ok"
              THEN /\ dec.res.tag = "Ok"
                   /\ dec.res.of = coprod[FirstMatch]
                   /\ dec.res.variant = dec.opcode
                   /\ dec.res.inr = FirstMatch - 1
              ELSE dec.res = FirstResult

\* The second member decodes the event, and a later, different member has the
\* same interface name.
C9_Witness ==
    /\ dec.called /\ dec.res.tag = "Ok" /\ dec.res.inr = 1
    /\ \E j \in Matching : j > 2 /\ coprod[j] # coprod[2]

(***************************************************************************)
(* C10: when the left-most member with the given interface name fails with *)
(* UnknownOpcode or DecodeError, the coproduct returns that error and runs *)
(* no later member.                                                        *)
(***************************************************************************)
C10_ErrorStopsDecoding ==
    (dec.called /\ Matching # {} /\ FirstResult.tag \in {"UnknownOpcode", "DecodeError"}) =>
        /\ dec.res = FirstResult
        /\ dec.tried = FirstMatch

\* The first matching member fails and a later member would have decoded.
C10_Witness ==
    /\ dec.called /\ Matching # {}
    /\ FirstResult.tag \in {"UnknownOpcode", "DecodeError"}
    /\ \E j \in Matching :
          Event_try_decode(coprod[j], dec.interface, dec.opcode, dec.len).tag = "Ok"

(***************************************************************************)
(* C16: for every message encode_message produces, the size field of the   *)
(* header equals 8 plus the sizes of the non-fd arguments each rounded up  *)
(* to a multiple of 4, and that is the number of bytes the encoder         *)
(* advanced over; fd arguments count 0.                                    *)
(***************************************************************************)
C16_HeaderSizeIsPaddedLength ==
    (enc.called /\ enc.res.ok) =>
        /\ enc.res.header.size = 8 + PaddedSize(enc.args)
        /\ enc.res.n = 8 + PaddedSize(enc.args)

(***************************************************************************)
(* C17: values written with MessageEncoder::write into a large enough      *)
(* buffer and read back in the same order and types are the values         *)
(* written, and every field starts at the 4-byte-aligned offset            *)
(* pad_to_32_bits(previous offset + previous field's size), on the write   *)
(* side and on the read side.                                              *)
(***************************************************************************)
AlignedOffsets(offs) ==
    \A i \in 1..Len(offs) :
        /\ offs[i] % 4 = 0
        /\ offs[i] = IF i = 1 THEN 0
                     ELSE pad_to_32_bits(offs[i - 1] + MessageSize(wire.vals[i - 1]))

C17_RoundTrip ==
    /\ wire.e.ok /\ wire.d.ok
    /\ AlignedOffsets(wire.offs) /\ AlignedOffsets(wire.roffs)
    /\ \A i \in 1..Len(wire.d.vals) : wire.d.vals[i] = wire.vals[i]
    /\ Len(wire.d.vals) = Len(wire.roffs)

\* A one-character string, a dynamically typed new id and an array have been
\* written and read back.
C17_Witness ==
    /\ wire.phase = "read" /\ Len(wire.d.vals) = 3
    /\ wire.vals[1] = String(<<97>>)
    /\ wire.vals[2].t = "new_id"
    /\ wire.vals[3] = Array(<<7>>)
    /\ wire.d.vals = wire.vals

(***************************************************************************)
(* C18 as stated: the header {object_id=1, opcode=3, size=16} encodes to   *)
(* the 8 bytes 01 00 00 00 10 00 03 00, and decoding them returns the same *)
(* header.                                                                 *)
(***************************************************************************)
HeaderWritten ==
    /\ wire.vals # <<>> /\ wire.vals[1] = MessageHeader(1, 3, 16)
    /\ Len(wire.offs) >= 1

C18_HeaderBytes ==
    HeaderWritten =>
        /\ SubSeq(wire.e.data, 1, 8) = <<1, 0, 0, 0, 16, 0, 3, 0>>
        /\ MessageHeader_decode(SubSeq(wire.e.data, 1, 8)).val = wire.vals[1]

(***************************************************************************)
(* C18 amended: the header {object_id=1, opcode=3, size=16} encodes to     *)
(* exactly 8 little-endian bytes in the order object_id, opcode, size,     *)
(* 01 00 00 00 03 00 10 00, nothing is written behind them, and decoding   *)
(* them returns the same header.                                           *)
(***************************************************************************)
C18_HeaderBytesOpcodeFirst ==
    HeaderWritten =>
        /\ SubSeq(wire.e.data, 1, 8) = <<1, 0, 0, 0, 3, 0, 16, 0>>
        /\ MessageSize(wire.vals[1]) = 8
        /\ Len(wire.offs) = 1 =>
               (wire.e.pos = 8 /\ \A i \in 9..Len(wire.e.data) : wire.e.data[i] = 0)
        /\ MessageHeader_decode(SubSeq(wire.e.data, 1, 8)).val = wire.vals[1]

\* The header was written in front of another value and read back.
C18_Witness ==
    /\ HeaderWritten /\ Len(wire.vals) >= 2
    /\ wire.phase = "read" /\ Len(wire.d.vals) >= 1
    /\ wire.d.vals[1] = MessageHeader(1, 3, 16)

(***************************************************************************)
(* C12: the writer task writes the requests in exactly the order in which  *)
(* they were put on the write channel: the requests written, followed by   *)
(* those still queued, are the first, second, third ... request enqueued,  *)
(* none twice and none out of order (so each task's requests are written   *)
(* in the order the task submitted them).                                  *)
(***************************************************************************)
C12_WrittenInEnqueueOrder ==
    /\ \A i \in 1..Len(Enqueued) : Enqueued[i].seq = i
    /\ \A i \in 1..Len(Enqueued), j \in 1..Len(Enqueued) :
          (i < j /\ Enqueued[i].by = Enqueued[j].by) => Enqueued[i].seq < Enqueued[j].seq

\* Requests of two tasks were queued together and the writer has sent them.
C12_Witness ==
    /\ Len(written) >= 2 /\ Len(channel) >= 1
    /\ written[1].by # written[2].by

(***************************************************************************)
(* C20: when the id space is exhausted, a request that creates an object   *)
(* returns the OutOfClientIds error to its caller: it does not panic, and  *)
(* it enqueues no request.                                                 *)
(***************************************************************************)
C20_ExhaustionReturnsError ==
    \A t \in Tasks : tpc[t] # "panicked"

(***************************************************************************)
(* The read side of the connection.                                        *)
(***************************************************************************)
Events == {i \in 1..Len(rlog) : rlog[i].kind = "event"}

\* C11: while a store-aware handler runs for an object, the object is out of
\* the store, and when the handler has returned the store holds it again with
\* the interface, the version and the proxy it had before.
C11_HandlerRestoresObject ==
    /\ nev.pc = "handling" => taken[1].entry.object_id \notin DOMAIN objects
    /\ \A i \in Events : rlog[i].handled => rlog[i].after = rlog[i].before

\* C13: once a send has failed the writer task has exited and writes no
\* further request, and a handle_event call begun after the failure returns
\* WorkerTerminated.
C13_WriterFailureSurfaced ==
    /\ worker.state # "running" => Len(written) = worker.wrote
    /\ \A i \in 1..Len(rlog) : rlog[i].after_failure => rlog[i].kind = "worker"

\* C14: a message that fails to decode (unknown interface, unknown opcode,
\* malformed body) reaches no handler and its handle_event call returns Ok,
\* leaving the connection able to deliver later events.
C14_DecodeFailureIsSkipped ==
    /\ nev.pc # "panicked"
    /\ \A i \in Events : rlog[i].decode \notin {"", "Ok"}
                             => rlog[i].result = "Ok" /\ ~rlog[i].handled

\* C15: whatever handle_event / next_event calls were cancelled, every message
\* the server sent is whole in the socket, with the call in progress, or was
\* returned.
C15_CancelLosesNoMessage ==
    \A k \in 1..sent :
        \/ \E i \in Events : rlog[i].n = k
        \/ \E j \in 1..Len(incoming) : incoming[j].n = k /\ incoming[j].part = "header"
        \/ nev.pc \in {"body", "handling"} /\ nev.n = k

\* C19: the file descriptors sent with a message are delivered with it.
C19_DescriptorsDelivered ==
    \A i \in Events : rlog[i].fds = rlog[i].fds_sent

(***************************************************************************)
(* Recycling the tail id.                                                  *)
(***************************************************************************)
\* The last call was recycle_id(next - 1), next read before the call.
RecycledTail == last.op = "recycle" /\ last.arg = DecU32(last.pre.next)

\* C25: recycle_id(next - 1) decrements next and absorbs the free ids
\* contiguous with the cursor: when it has returned, next is lower and the
\* free list does not hold the id next - 1.
C25_TailAbsorbed ==
    RecycledTail => /\ LtU32(mgr.next, last.pre.next)
                    /\ DecU32(mgr.next) \notin HeapIds(mgr.free_list)

\* C26: after recycle_id(next - 1), peek_next_id returns that id, whatever
\* the free list holds.
C26_PeekReturnsRecycledTail ==
    RecycledTail => peek_next_id(mgr) = Ok(last.arg)

\* C26, amended: after recycle_id(next - 1), peek_next_id returns the smallest
\* id that is free: the recycled id when no id was in the free list, otherwise
\* the smallest id of the free list.
C26_PeekReturnsSmallestFree ==
    RecycledTail =>
        peek_next_id(mgr) = Ok(IF last.pre.free_list = <<>> THEN last.arg
                               ELSE HeapPeek(last.pre.free_list))

\* The tail id was recycled while a smaller id was in the free list.
C26_Witness ==
    /\ RecycledTail
    /\ last.pre.free_list # <<>>
    /\ LtU32(HeapPeek(last.pre.free_list), DecU32(last.arg))

(***************************************************************************)
(* The object store.                                                       *)
(***************************************************************************)
\* The ids of the stored objects get_all::<I> is to return.
Listed(I) ==
    {store[i].key : i \in {j \in 1..Len(store) :
                             /\ store[j].val.interface = I
                             /\ LeU32(store[j].val.version, MAX_VERSION(I))}}

\* C21: whatever inserts, takes and removes came before, get_all::<I> returns
\* exactly the stored objects whose interface is I::INTERFACE and whose
\* version is at most I::MAX_VERSION, each once, in ascending id order.
C21_GetAllInIdOrder ==
    sres.op = "get_all" =>
        /\ {sres.res[i].id : i \in 1..Len(sres.res)} = Listed(sres.I)
        /\ \A i \in 1..Len(sres.res), j \in 1..Len(sres.res) :
              i < j => LtU32(sres.res[i].id, sres.res[j].id)
        /\ \A i \in 1..Len(sres.res) :
              sres.res[i] = BTreeGet(store, sres.res[i].id).proxy

\* get_all returned two objects, a server-allocated one last, and left out a
\* third.
C21_Witness ==
    /\ sres.op = "get_all"
    /\ Len(sres.res) = 2 /\ Len(store) = 3
    /\ sres.res[2].id < 0

\* C29: take::<I>(id) that returns an object has removed exactly the entry id,
\* whose interface was I and whose version passed take's test, and returns
\* its proxy; take that returns None leaves the store as it was.
C29_TakeFrame ==
    sres.op = "take" =>
        IF sres.res # <<>>
        THEN /\ sres.id \in BTreeKeys(sres.pre)
             /\ BTreeGet(sres.pre, sres.id).interface = sres.I
             /\ ~LtU32(BTreeGet(sres.pre, sres.id).version, MAX_VERSION(sres.I))
             /\ sres.res = <<BTreeGet(sres.pre, sres.id).proxy>>
             /\ store = SelectSeq(sres.pre, LAMBDA e : e.key # sres.id)
        ELSE /\ store = sres.pre
             /\ \/ sres.id \notin BTreeKeys(sres.pre)
                \/ BTreeGet(sres.pre, sres.id).interface # sres.I
                \/ LtU32(BTreeGet(sres.pre, sres.id).version, MAX_VERSION(sres.I))

\* take refused an object that is in the store, between two others.
C29_Witness ==
    /\ sres.op = "take" /\ sres.res = <<>>
    /\ Len(store) = 3 /\ store[2].key = sres.id

\* take returned an object and others stayed.
C29_WitnessSome ==
    /\ sres.op = "take" /\ sres.res # <<>>
    /\ Len(store) = 2

(***************************************************************************)
(* Fixed point conversions.                                                *)
(***************************************************************************)
\* C22: a whole number n with |n| < 2^23, negative ones included, converted
\* to Fixed and back to i32 is n.
C22_WholeRoundTrip ==
    (fx.phase = "int" /\ fx.to = "i32" /\ -FixedLimit < fx.n /\ fx.n < FixedLimit)
        => fx.out = fx.n

\* The most negative number of the claim's range went to Fixed and back.
C22_Witness ==
    /\ fx.phase = "int" /\ fx.to = "i32"
    /\ fx.n = 1 - FixedLimit
    /\ fx.raw = (1 - FixedLimit) * 256
    /\ fx.out = fx.n

(***************************************************************************)
(* C24: for every generated request and every argument value, strings,     *)
(* arrays and dynamically typed new ids among other fields included,       *)
(* encode_message succeeds in the buffer of MessageHeader::SIZE +          *)
(* request.size() bytes that the generated request method allocates.       *)
(***************************************************************************)
C24_RequestBufferSuffices ==
    (/\ enc.called /\ enc.room = 0
     /\ \A i \in 1..Len(enc.args) : enc.args[i].t # "unit")
        => enc.res.ok

\* Connection::new in every environment.
InitResolve ==
    InitId /\ low = 0 /\ InitConn /\ InitDec /\ InitWire /\ InitRecv /\ InitStore
      /\ InitFixed /\ InitPathAny /\ InitWriter /\ InitInput /\ InitRead /\ InitGen

SpecPath == InitResolve /\ [][NextPath]_vars

\* The writer task with its channel, senders and token.  The task is
\* scheduled, a send in progress finishes, and the cancelled branch of an
\* unbiased select! is not passed over for ever.
SpecWriter ==
    /\ InitMisuse /\ [][NextWriter]_vars
    /\ WF_vars(WriterRecv) /\ WF_vars(WriterSent \/ WriterSendError)
    /\ SF_vars(WriterCancelled) /\ WF_vars(WriterClosed)

\* The display name Connection::new is given: WAYLAND_DISPLAY, or "wayland-0".
DisplayName ==
    IF cn.WAYLAND_DISPLAY.set THEN cn.WAYLAND_DISPLAY.value ELSE Path(FALSE, <<"wayland-0">>)

\* C23: once Connection::new has looked at the environment, it has failed with
\* NoXdgRuntimeDir exactly when the display name (WAYLAND_DISPLAY, "wayland-0"
\* when unset) is not absolute and XDG_RUNTIME_DIR is unset; otherwise the path
\* it connects to is the display name itself when that is absolute and the
\* display name under XDG_RUNTIME_DIR when it is not.
C23_SocketPath ==
    cn.phase \notin {"none", "env"} =>
        /\ cn.err = "NoXdgRuntimeDir" <=> (~DisplayName.abs /\ ~cn.XDG_RUNTIME_DIR.set)
        /\ cn.err # "NoXdgRuntimeDir" =>
               cn.path = IF DisplayName.abs THEN DisplayName
                         ELSE Path(cn.XDG_RUNTIME_DIR.value.abs,
                                   cn.XDG_RUNTIME_DIR.value.parts \o DisplayName.parts)

\* The same, in environments whose set variables hold Unicode.
C23_SocketPathUnicode ==
    (/\ cn.WAYLAND_DISPLAY.set => cn.WAYLAND_DISPLAY.unicode
     /\ cn.XDG_RUNTIME_DIR.set => cn.XDG_RUNTIME_DIR.unicode) => C23_SocketPath

\* What one send that carries the message's buffer and descriptors hands over.
Sent(m) == [bytes |-> m.buffer, fds |-> m.fds]

\* The sends match the messages taken, one each and in order; only the message
\* whose send is in progress or has failed has none.
OneSendEach ==
    /\ Len(wt.socket) + (IF wt.state = "send" \/ wt.exit = "error" THEN 1 ELSE 0)
         = Len(wt.received)
    /\ \A i \in 1..Len(wt.socket) : wt.socket[i] = Sent(wt.received[i])
    /\ wt.exit \in {"closed", "cancelled"} => wt.result = "Ok"
    /\ wt.exit = "closed" => wt.senders = 0

\* C27: every message the writer task took from the channel was handed to the
\* socket by exactly one send that carries its buffer together with its
\* descriptors; once the token is cancelled the task exits, once every sender is
\* gone it exits, with Ok when it exits because the channel is closed; and an
\* exited task stays exited and sends nothing.
C27_WriterTask ==
    /\ []OneSendEach
    /\ [][wt.state = "exited" => (wt'.state = "exited" /\ wt'.socket = wt.socket)]_vars
    /\ (wt.token ~> wt.state = "exited")
    /\ (wt.senders = 0 ~> wt.state = "exited")

C27_Witness ==
    /\ wt.exit = "closed" /\ wt.result = "Ok"
    /\ Len(wt.socket) = 2 /\ wt.socket[2].fds = <<7, 8>>

\* String::decode on every byte slice.
InitBytes ==
    InitId /\ low = 0 /\ InitConn /\ InitDec /\ InitWire /\ InitRecv /\ InitStore
      /\ InitFixed /\ InitPath /\ InitWriter /\ InitInputAny /\ InitRead /\ InitGen

SpecString == InitBytes /\ [][DecodeString]_vars

\* The length field of a slice that has one.
StringLength == FromLe32(SubSeq(input.data, 1, 4))

\* The slice is shorter than 4 + L + 1 bytes, or has no room for L at all.
TooShort ==
    Len(input.data) < 4 \/ StringLength < 0 \/ Len(input.data) < 4 + StringLength + 1

\* C30: String::decode of any byte slice returns a string or an error and
\* never panics; it returns InvalidSize when the slice is shorter than
\* 4 + L + 1 bytes or its L payload bytes are not UTF-8; and it returns a
\* string only when the byte at offset 4 + L is NUL.
C30_StringDecodeTotal ==
    input.phase = "decoded" =>
        /\ input.res.err # "panic"
        /\ (TooShort \/ ~from_utf8_ok(SubSeq(input.data, 5, 4 + StringLength)))
               => (~input.res.ok /\ input.res.err = "InvalidSize")
        /\ input.res.ok => input.data[4 + StringLength + 1] = 0

\* A generated event type's try_decode on every interface name, opcode and body.
InitBodies ==
    InitId /\ low = 0 /\ InitConn /\ InitDec /\ InitWire /\ InitRecv /\ InitStore
      /\ InitFixed /\ InitPath /\ InitWriter /\ InitInputBody /\ InitRead /\ InitGen

SpecEvent == InitBodies /\ [][TryDecodeBody]_vars

\* The event type whose try_decode ran.
TriedType == IF input.t = "wl_seat" THEN WlSeatEvent ELSE WlRegistryEvent

\* One argument of type t is laid out at the start of data.
WellFormedArg(t, data) ==
    /\ Len(data) >= 4
    /\ t = "string" =>
           LET L == FromLe32(SubSeq(data, 1, 4))
           IN  /\ L >= 0 /\ Len(data) >= 4 + L + 1
               /\ data[4 + L + 1] = 0
               /\ from_utf8_ok(SubSeq(data, 5, 4 + L))

\* The bytes an argument of type t takes at the start of data, padding included.
ArgBytes(t, data) ==
    IF t = "string" THEN pad_to_32_bits(4 + FromLe32(SubSeq(data, 1, 4)) + 1) ELSE 4

\* The arguments of types ts are laid out in data one after the other.
RECURSIVE WellFormed(_, _)
WellFormed(ts, data) ==
    \/ ts = <<>>
    \/ /\ WellFormedArg(Head(ts), data)
       /\ WellFormed(Tail(ts), SubSeq(data, ArgBytes(Head(ts), data) + 1, Len(data)))

\* C28: try_decode of a generated event type returns UnknownInterface(name)
\* when the name is not the interface's own; UnknownOpcode(u) when the name
\* matches and u is not the index of one of the interface's events; and
\* otherwise the event declared at index u among the interface's events, or
\* DecodeError when the body is not a well-formed payload of that event.
C28_TryDecode ==
    input.phase = "tried" =>
        LET ty == TriedType
            u == input.opcode
        IN  IF input.interface # ty.name THEN input.ev = UnknownInterface(input.interface)
            ELSE IF u + 1 \notin 1..Len(ty.events) THEN input.ev = UnknownOpcode(u)
            ELSE IF WellFormed(ty.events[u + 1], input.data)
                 THEN input.ev = Decoded(ty, u)
                 ELSE input.ev = DecodeError

\* C39: once Connection has been dropped and the writer task has exited
\* without a failed send, every request that was on the channel (or already
\* taken from it) when the drop happened has been taken by the task and given
\* to the socket: none was discarded.
C39_QueuedRequestsSent ==
    (~wt.connection /\ wt.state = "exited" /\ wt.exit # "error") =>
        (Len(wt.received) >= wt.owed /\ Len(wt.socket) >= wt.owed)

\* C37: take::<I>(id) returns an object exactly when get::<I>(id), asked of the
\* store as it was before the call, returns one.
C37_TakeIffGet ==
    sres.op = "take" =>
        ((sres.res # <<>>) <=> Store_get(sres.pre, sres.I, sres.id).some)

\* Fixed values with fractions converted to every integer type.
InitShift ==
    InitId /\ low = 0 /\ InitConn /\ InitDec /\ InitWire /\ InitRecv /\ InitStore
      /\ InitFixedRaw /\ InitPath /\ InitWriter /\ InitInput /\ InitRead /\ InitGen

SpecFixedRaw == InitShift /\ [][FixedIntoAny]_vars

\* floor(raw / 256) is a value of the integer type.
FitsType(to, v) ==
    CASE to = "i8" -> -128 <= v /\ v <= 127
      [] to = "i16" -> -32768 <= v /\ v <= 32767
      [] to = "u8" -> 0 <= v /\ v <= 255
      [] to = "u16" -> 0 <= v /\ v <= 65535
      [] OTHER -> TRUE

\* C34: a Fixed converted to an integer type, signed or unsigned, gives the
\* raw value shifted right arithmetically by 8, that is floor(raw / 256),
\* whenever the type can hold that number; so all signed widths agree, also
\* on negative values with a fraction.
C34_IntoIsArithmeticShift ==
    (fx.phase = "int" /\ FitsType(fx.to, fx.raw \div 256)) => fx.out = fx.raw \div 256

\* The ids below next that the window of the model follows one by one.
FollowedIds == {id \in gone \cup ((low + 1)..(low + MaxIds + 1)) : LtU32(id, mgr.next)}

\* C35: under valid use the free list holds no id twice, every id in it is
\* below next, no id in it is outstanding, and every id of 1..next-1 is either
\* outstanding or in the free list.
C35_IdManagerInvariant ==
    /\ Cardinality(HeapIds(mgr.free_list)) = Len(mgr.free_list)
    /\ \A id \in HeapIds(mgr.free_list) :
           LeU32(1, id) /\ LtU32(id, mgr.next) /\ ~IsOutstanding(id)
    /\ \A id \in FollowedIds : IsOutstanding(id) \/ id \in HeapIds(mgr.free_list)

\* Two ids are free below next while another is still held.
C35_Witness ==
    /\ last.op = "recycle" /\ Len(mgr.free_list) = 2 /\ out # {}
    /\ \E id \in out : LtU32(HeapPeek(mgr.free_list), id)

\* C36: whatever ids recycle_id was given (0, ids never allocated, ids already
\* recycled), no call has panicked on the arithmetic of next, and an id that
\* alloc_id returns is not outstanding, is not 0 and is not above CLIENT_MAX_ID.
C36_MisuseIsHarmless ==
    /\ ~panicked
    /\ (last.op = "alloc" /\ last.res.tag = "Ok") =>
           /\ ~last.dup
           /\ last.res.val # 0
           /\ LeU32(last.res.val, CLIENT_MAX_ID)

\* next_event reading what the server sends, in pieces, until the peer closes.
InitStream ==
    InitId /\ low = 0 /\ InitConn /\ InitDec /\ InitWire /\ InitRecv /\ InitStore
      /\ InitFixed /\ InitPath /\ InitWriter /\ InitInput /\ InitReadAny /\ InitGen

SpecRead == InitStream /\ [][NextRead]_vars

\* C31: a recv_header that received fewer than 8 bytes returned an error, and
\* a next_event whose body receive got fewer than size - 8 bytes did not
\* return a message.
C31_ShortReadsAreErrors ==
    /\ (rd.call.hn >= 0 /\ rd.call.hn < 8) => rd.call.hres = "Err"
    /\ (rd.call.bn >= 0 /\ rd.call.bn < rd.call.size) => rd.call.result # "Ok"

\* C32: a next_event that was called after the peer had closed the
\* connection, with nothing left to read, and that has ended, has returned
\* WorkerTerminated.
C32_PeerCloseIsWorkerTerminated ==
    (rd.call.closed_before /\ rd.call.pc \in {"returned", "panicked"})
        => rd.call.result = "WorkerTerminated"

InitBuild ==
    /\ InitId /\ low = 0 /\ InitConn /\ InitDec /\ InitWire /\ InitRecv /\ InitStore
      /\ InitFixed /\ InitPath /\ InitWriter /\ InitInput /\ InitRead /\ InitGenAny

SpecGen == InitBuild /\ [][BuildMessage]_vars

\* Every non-fd argument of the message has a fixed width.
AllFixedWidth(args) ==
    \A i \in 1..Len(args) :
        \/ args[i].type_ \in {"uint", "int", "fixed", "object", "fd"}
        \/ (args[i].type_ = "new_id" /\ args[i].interface)

\* C33: the generator emits a compile-time SIZE for a message exactly when
\* all of its non-fd arguments are of fixed width, and that SIZE equals the
\* size() computed at run time.
C33_CompileTimeSize ==
    gen.phase = "built" =>
        /\ gen.out.impl <=> AllFixedWidth(gen.args)
        /\ gen.out.impl => (gen.out.compiles /\ gen.out.SIZE = FixedWidthSize(gen.args))

\* The id is allocated in the manager: handed out and not on the free list.
IsAllocated(m, id) == id # 0 /\ LtU32(id, m.next) /\ id \notin HeapIds(m.free_list)

\* C38: when an object-creating request fails to encode, the method returns
\* with nothing enqueued, the new object's id not left allocated and no
\* interface map entry left for it.
C38_FailedEncodeLeavesNothing ==
    [][\A t \in Tasks :
          (tpc[t] = "enqueue" /\ tpc'[t] = "idle" /\ treq[t].iface # ""
             /\ EncodeFails(treq[t])) =>
              /\ channel' = channel
              /\ ~IsAllocated(id_manager', treq[t].id)
              /\ treq[t].id \notin DOMAIN interface_map']_vars

\* encode_message on messages around the longest a 16 bit size can state.
InitLarge ==
    InitId /\ low = 0 /\ InitConn /\ InitDec /\ InitWireLarge /\ InitRecv /\ InitStore
      /\ InitFixed /\ InitPath /\ InitWriter /\ InitInput /\ InitRead /\ InitGen

SpecLarge == InitLarge /\ [][EncodeLargeMessage]_vars

\* C40: the size field encode_message writes is the length of the message: a
\* message of more than 65535 bytes, header included, is refused with an
\* error and never written with its length reduced modulo 2^16.
C40_SizeFieldIsLength ==
    (enc.called /\ enc.len > 0) =>
        IF 8 + 4 + enc.len > 65535
        THEN ~enc.res.ok
        ELSE enc.res.ok /\ FromLe16(SubSeq(enc.res.data, 7, 8)) = enc.res.n

====
